---- MODULE Spec2Model ----
(***************************************************************************)
(* Model of the RBAC authorization engine of velaux                        *)
(* (pkg/server/domain/service/rbac.go): resource names, policy evaluation, *)
(* the CheckPerm request filter, the resolution and instantiation of       *)
(* resource paths, registration, and the role and permission operations.   *)
(*                                                                         *)
(* Strings are sequences of atoms: the separators "/", ":", "{", "}" are   *)
(* atoms of their own and every other atom is a word without separators,   *)
(* so that splitting, parsing and rendering are computed, not assumed.     *)
(* Effect strings are sequences of letters (case matters for them).        *)
(***************************************************************************)
EXTENDS Integers, Sequences, FiniteSets, TLC

VARIABLES
    rn,           \* SpecRN: [pattern, target, out] of one ResourceName.Match call
    pol,          \* SpecPolicy: one RequestResourceAction.Match call
    call,         \* one call of another function: its arguments and results
    store,        \* the datastore: users, roles, perms, projectUsers, apps, envs
    req,          \* the request: context user, path and query parameters, route
    pc,           \* position of the CheckPerm filter in its body
    user,         \* the user loaded from the store
    ra,           \* the RequestResourceAction built for the request
    projectName,  \* the project name used to load the policies
    permissions,  \* the policies GetUserPermissions returned
    reads,        \* history: the store reads made, with their outcomes
    response,     \* history: the error responses written
    chain,        \* history: calls of chain.ProcessFilter
    ctx           \* username and project attached to the request context

filterVars ==
    <<store, req, pc, user, ra, projectName, permissions, reads, response, chain, ctx>>

vars == <<rn, pol, call, filterVars>>

-----------------------------------------------------------------------------
(* Bounds *)

MaxSegs == 2        \* `/`-separated tokens of a generated resource string
MaxPolicies == 2    \* policies in a generated policy list
MaxParts == 2       \* `/`-separated parts of a generated resource type name
MaxRegistrations == 2   \* calls of CheckPerm in one run

-----------------------------------------------------------------------------
(* String helpers *)

Empty == <<>>
Star == <<"*">>

\* "t:v"
Seg(t, v) == <<t, ":", v>>

\* a/b
Slash(a, b) == a \o <<"/">> \o b

\* strings.Split(s, sep): n separators give n+1 pieces, empty pieces kept
RECURSIVE Split(_, _)
Split(s, sep) ==
    IF \E i \in 1..Len(s) : s[i] = sep
    THEN LET i == CHOOSE k \in 1..Len(s) :
                     s[k] = sep /\ \A j \in 1..(k - 1) : s[j] # sep
         IN <<SubSeq(s, 1, i - 1)>> \o Split(SubSeq(s, i + 1, Len(s)), sep)
    ELSE <<s>>

UpperLetters == <<"A", "D", "E", "L", "N", "O", "W", "Y">>
LowerLetters == <<"a", "d", "e", "l", "n", "o", "w", "y">>

ToLower(c) ==
    IF \E i \in 1..Len(UpperLetters) : UpperLetters[i] = c
    THEN LowerLetters[CHOOSE i \in 1..Len(UpperLetters) : UpperLetters[i] = c]
    ELSE c

\* strings.EqualFold on ASCII letters
EqualFold(a, b) ==
    /\ Len(a) = Len(b)
    /\ \A i \in 1..Len(a) : ToLower(a[i]) = ToLower(b[i])

\* utils.StringsContain
StringsContain(items, s) == \E i \in 1..Len(items) : items[i] = s

\* utils.SliceIncludeSlice(a, b): every item of b is in a
SliceIncludeSlice(a, b) == \A i \in 1..Len(b) : StringsContain(a, b[i])

\* strings.TrimSuffix and strings.TrimPrefix for a one-character affix
TrimSuffix(s, c) == IF Len(s) > 0 /\ s[Len(s)] = c THEN SubSeq(s, 1, Len(s) - 1) ELSE s
TrimPrefix(s, c) == IF Len(s) > 0 /\ s[1] = c THEN SubSeq(s, 2, Len(s)) ELSE s

-----------------------------------------------------------------------------
(* ResourceName *)

Sentinel == [Type |-> Empty, Value |-> Empty]

\* One node per token, then the trailing empty node.  A token with three or
\* more parts leaves its node zero-valued.
ParseResourceName(resource) ==
    LET RNs == Split(resource, "/")
        node(tok) ==
            LET rnData == Split(tok, ":")
            IN IF Len(rnData) = 2
               THEN [Type |-> rnData[1], Value |-> rnData[2]]
               ELSE IF Len(rnData) = 1
                    THEN [Type |-> rnData[1], Value |-> Star]
                    ELSE Sentinel
    IN [i \in 1..Len(RNs) |-> node(RNs[i])] \o <<Sentinel>>

\* MatchFrom without the short-circuit on a pattern segment of type `*`
RECURSIVE MatchFrom_NoTypeWildcard(_, _, _)
MatchFrom_NoTypeWildcard(r, target, i) ==
    IF i <= Len(r) /\ r[i].Type # Empty
    THEN IF i > Len(target) \/ target[i].Type = Empty
         THEN FALSE
         ELSE IF r[i].Type # target[i].Type
              THEN FALSE
              ELSE IF r[i].Value # target[i].Value /\ r[i].Value # Star
                   THEN FALSE
                   ELSE MatchFrom_NoTypeWildcard(r, target, i + 1)
    ELSE IF i <= Len(target) /\ target[i].Type # Empty
         THEN FALSE
         ELSE TRUE

\* MatchFrom without the check of the target's remaining segments
RECURSIVE MatchFrom_NoTailCheck(_, _, _)
MatchFrom_NoTailCheck(r, target, i) ==
    IF i <= Len(r) /\ r[i].Type # Empty
    THEN IF r[i].Type = Star
         THEN TRUE
         ELSE IF i > Len(target) \/ target[i].Type = Empty
              THEN FALSE
              ELSE IF r[i].Type # target[i].Type
                   THEN FALSE
                   ELSE IF r[i].Value # target[i].Value /\ r[i].Value # Star
                        THEN FALSE
                        ELSE MatchFrom_NoTailCheck(r, target, i + 1)
    ELSE TRUE

\* The loop of ResourceName.Match from position i of both chains; a
\* position past the end of a chain is the nil pointer.
RECURSIVE MatchFrom(_, _, _)
MatchFrom(r, target, i) ==
    IF i <= Len(r) /\ r[i].Type # Empty
    THEN IF r[i].Type = Star
         THEN TRUE
         ELSE IF i > Len(target) \/ target[i].Type = Empty
              THEN FALSE
              ELSE IF r[i].Type # target[i].Type
                   THEN FALSE
                   ELSE IF r[i].Value # target[i].Value /\ r[i].Value # Star
                        THEN FALSE
                        ELSE MatchFrom(r, target, i + 1)
    ELSE IF i <= Len(target) /\ target[i].Type # Empty
         THEN FALSE
         ELSE TRUE

ResourceNameMatch(r, target) == MatchFrom(r, target, 1)

\* match with the arguments of the inclusion test swapped
match_SwappedInclude(r, policy) ==
    IF /\ ~SliceIncludeSlice(r.actions, policy.Actions)
       /\ ~StringsContain(policy.Actions, "*")
    THEN FALSE
    ELSE \E i \in 1..Len(policy.Resources) :
             ResourceNameMatch(ParseResourceName(policy.Resources[i]), r.resource)

\* RequestResourceAction.match: the action test, then any resource pattern
match(r, policy) ==
    IF /\ ~SliceIncludeSlice(policy.Actions, r.actions)
       /\ ~StringsContain(policy.Actions, "*")
    THEN FALSE
    ELSE \E i \in 1..Len(policy.Resources) :
             ResourceNameMatch(ParseResourceName(policy.Resources[i]), r.resource)

\* effects as they are stored
EffAllow == <<"A", "l", "l", "o", "w">>
EffDeny == <<"D", "e", "n", "y">>
EffDENY == <<"D", "E", "N", "Y">>

deny == <<"d", "e", "n", "y">>
allow == <<"a", "l", "l", "o", "w">>

\* Match with the Allow pass run before the Deny pass
Match_AllowFirst(r, policies) ==
    IF \E i \in 1..Len(policies) :
           /\ EqualFold(policies[i].Effect, allow) \/ policies[i].Effect = Empty
           /\ match(r, policies[i])
    THEN TRUE
    ELSE FALSE

\* Match that permits when no Deny policy matched
Match_DefaultPermit(r, policies) ==
    IF \E i \in 1..Len(policies) :
           EqualFold(policies[i].Effect, deny) /\ match(r, policies[i])
    THEN FALSE
    ELSE TRUE

\* RequestResourceAction.Match: the Deny pass, then the Allow pass, else false
Match(r, policies) ==
    IF \E i \in 1..Len(policies) :
           EqualFold(policies[i].Effect, deny) /\ match(r, policies[i])
    THEN FALSE
    ELSE IF \E i \in 1..Len(policies) :
                /\ EqualFold(policies[i].Effect, allow) \/ policies[i].Effect = Empty
                /\ match(r, policies[i])
         THEN TRUE
         ELSE FALSE

\* StringFrom writing the types only
RECURSIVE StringFrom_TypeOnly(_, _)
StringFrom_TypeOnly(r, i) ==
    IF i > Len(r) \/ r[i].Type = Empty THEN Empty
    ELSE r[i].Type \o <<"/">> \o StringFrom_TypeOnly(r, i + 1)

\* ResourceName.String: "Type:Value/" for each node before the first node
\* of empty type, the last "/" trimmed
RECURSIVE StringFrom(_, _)
StringFrom(r, i) ==
    IF i > Len(r) \/ r[i].Type = Empty THEN Empty
    ELSE r[i].Type \o <<":">> \o r[i].Value \o <<"/">> \o StringFrom(r, i + 1)

ResourceNameString(r) == TrimSuffix(StringFrom(r, 1), "/")

-----------------------------------------------------------------------------
(* Resource schema and path resolution *)

NoSub == [x \in {} |-> x]

Meta(p, subs) == [pathName |-> p, subResources |-> subs]

ResourceMaps ==
    "project" :> Meta("projectName",
        "application" :> Meta("appName",
            "component" :> Meta("compName", "trait" :> Meta("traitType", NoSub))
            @@ "workflow" :> Meta("workflowName", "record" :> Meta("record", NoSub))
            @@ "policy" :> Meta("policyName", NoSub)
            @@ "revision" :> Meta("revision", NoSub)
            @@ "envBinding" :> Meta("envName", NoSub)
            @@ "trigger" :> Meta("", NoSub))
        @@ "environment" :> Meta("envName", NoSub)
        @@ "workflow" :> Meta("workflowName", NoSub)
        @@ "role" :> Meta("roleName", NoSub)
        @@ "permission" :> Meta("", NoSub)
        @@ "projectUser" :> Meta("userName", NoSub)
        @@ "applicationTemplate" :> Meta("", NoSub)
        @@ "config" :> Meta("configName", NoSub)
        @@ "provider" :> Meta("", NoSub)
        @@ "pipeline" :> Meta("pipelineName",
               "context" :> Meta("contextName", NoSub)
               @@ "pipelineRun" :> Meta("pipelineRunName", NoSub)))
    @@ "cluster" :> Meta("clusterName", "namespace" :> Meta("", NoSub))
    @@ "addon" :> Meta("addonName", NoSub)
    @@ "addonRegistry" :> Meta("addonRegName", NoSub)
    @@ "target" :> Meta("targetName", NoSub)
    @@ "user" :> Meta("userName", NoSub)
    @@ "role" :> Meta("", NoSub)
    @@ "permission" :> Meta("permissionName", NoSub)
    @@ "systemSetting" :> Meta("", NoSub)
    @@ "definition" :> Meta("definitionName", NoSub)
    @@ "configType" :> Meta("configType", "config" :> Meta("name", NoSub))
    @@ "cloudshell" :> Meta("", NoSub)
    @@ "config" :> Meta("", NoSub)
    @@ "configTemplate" :> Meta("", NoSub)

\* WithPathName ignoring the path parameter name
WithPathName_AlwaysStar(k, pathName) == <<k, ":", "*">>

\* "k:{pathName}", or "k:*" for a type without path parameter
WithPathName(k, pathName) ==
    IF pathName # "" THEN <<k, ":", "{", pathName, "}">> ELSE <<k, ":", "*">>

\* convertSources: the pairs <<key, template>> of the index, e.g.
\* <<"/project/application/", "/project:{projectName}/application:{appName}/">>
RECURSIVE convertSources(_)
convertSources(sources) ==
    UNION { { <<<<"/", k>> \o e[1],
                <<"/">> \o WithPathName(k, sources[k].pathName) \o e[2]>> :
                  e \in convertSources(sources[k].subResources) }
            \cup { <<<<"/", k, "/">>,
                     <<"/">> \o WithPathName(k, sources[k].pathName) \o <<"/">>>> }
          : k \in DOMAIN sources }

existResourcePaths == convertSources(ResourceMaps)

\* strings.Index on atom sequences: first position (from 0) of sub, or -1
Index(s, sub) ==
    LET hits == { i \in 1..(Len(s) - Len(sub) + 1) :
                      SubSeq(s, i, i + Len(sub) - 1) = sub }
    IN IF hits = {} THEN -1
       ELSE (CHOOSE i \in hits : \A j \in hits : i <= j) - 1

\* the text after the last "/" of s
AfterLastSlash(s) ==
    LET slashes == { i \in 1..Len(s) : s[i] = "/" }
    IN IF slashes = {} THEN s
       ELSE SubSeq(s, (CHOOSE i \in slashes : \A j \in slashes : j <= i) + 1, Len(s))

RECURSIVE SetToSeq(_)
SetToSeq(S) ==
    IF S = {} THEN <<>>
    ELSE LET x == CHOOSE y \in S : TRUE IN <<x>> \o SetToSeq(S \ {x})

\* the test of the loop of checkResourcePath on the index entry e, taking
\* only the last part of the resource name into account
PathMatches_LastNameOnly(resource, e) ==
    LET erp == e[2]
        lastResourceName == AfterLastSlash(resource)
        index == Index(erp, <<"/">> \o lastResourceName \o <<":">>)
    IN index > -1

\* the test of the loop of checkResourcePath on the index entry e
PathMatches(resource, e) ==
    LET key == e[1]
        erp == e[2]
        lastResourceName == AfterLastSlash(resource)
        allMatchIndex == Index(key, <<"/">> \o resource \o <<"/">>)
        index == Index(erp, <<"/">> \o lastResourceName \o <<":">>)
    IN index > -1 /\ allMatchIndex > -1

\* the loop body counting one match whatever the paths found
ScanBody_NeverAmbiguous(resource, e, acc) ==
    LET erp == e[2]
        lastResourceName == AfterLastSlash(resource)
        index == Index(erp, <<"/">> \o lastResourceName \o <<":">>)
        cut == index + Len(lastResourceName) + 2
        next == SubSeq(erp, cut + 1, Len(erp))
        nameIndex == Index(next, <<"/">>)
        pre == IF nameIndex > -1
               THEN SubSeq(erp, 1, cut) \o SubSeq(next, 1, nameIndex)
               ELSE SubSeq(erp, 1, cut)
    IN [path |-> pre, exist |-> 1]

\* the body of the loop for an entry that passed the test; acc is
\* [path, exist]
ScanBody(resource, e, acc) ==
    LET erp == e[2]
        lastResourceName == AfterLastSlash(resource)
        index == Index(erp, <<"/">> \o lastResourceName \o <<":">>)
        cut == index + Len(lastResourceName) + 2
        next == SubSeq(erp, cut + 1, Len(erp))
        nameIndex == Index(next, <<"/">>)
        pre == IF nameIndex > -1
               THEN SubSeq(erp, 1, cut) \o SubSeq(next, 1, nameIndex)
               ELSE SubSeq(erp, 1, cut)
    IN [path |-> pre,
        exist |-> IF pre # acc.path THEN acc.exist + 1 ELSE acc.exist]

\* the loop of checkResourcePath over the index entries, taken in the
\* order of the sequence entries; acc is [path, exist]
RECURSIVE ScanPaths(_, _, _, _)
ScanPaths(resource, entries, i, acc) ==
    IF i > Len(entries) THEN acc
    ELSE IF PathMatches(resource, entries[i])
         THEN ScanPaths(resource, entries, i + 1, ScanBody(resource, entries[i], acc))
         ELSE ScanPaths(resource, entries, i + 1, acc)

\* what checkResourcePath returns after the loop
PathResult(acc) ==
    [path |-> TrimPrefix(TrimSuffix(acc.path, "/"), "/"),
     err |-> IF acc.exist = 1 THEN ""
             ELSE IF acc.exist > 1 THEN "not unique" ELSE "no resource"]

\* checkResourcePath with the index iterated in the given order
checkResourcePathIn(resource, entries) ==
    IF Len(resource) = 1 /\ resource[1] \in DOMAIN ResourceMaps
    THEN [path |-> WithPathName(resource[1], ResourceMaps[resource[1]].pathName),
          err |-> ""]
    ELSE PathResult(ScanPaths(resource, entries, 1, [path |-> Empty, exist |-> 0]))

checkResourcePath(resource) == checkResourcePathIn(resource, SetToSeq(existResourcePaths))

-----------------------------------------------------------------------------
(* Template instantiation *)

\* reg.FindAllString for the ungreedy pattern \{.*\}: from the left, each
\* "{" with the nearest "}" after it
RECURSIVE FindAllString(_)
FindAllString(s) ==
    LET opens == { i \in 1..Len(s) : s[i] = "{" }
    IN IF opens = {} THEN <<>>
       ELSE LET i == CHOOSE k \in opens : \A m \in opens : k <= m
                closes == { j \in (i + 1)..Len(s) : s[j] = "}" }
            IN IF closes = {} THEN <<>>
               ELSE LET j == CHOOSE k \in closes : \A m \in closes : k <= m
                    IN <<SubSeq(s, i, j)>> \o FindAllString(SubSeq(s, j + 1, Len(s)))

\* strings.Replace(s, old, new, 1)
ReplaceFirst(s, old, new) ==
    LET k == Index(s, old)
    IN IF k = -1 THEN s
       ELSE SubSeq(s, 1, k) \o new \o SubSeq(s, k + Len(old) + 1, Len(s))

\* the name between the braces of a placeholder
KeyOf(sourcekey) == SubSeq(sourcekey, 2, Len(sourcekey) - 1)

\* the names pathParameter is called with
KeysOf(resource) ==
    LET found == FindAllString(resource)
    IN { KeyOf(found[i]) : i \in 1..Len(found) }

\* the loop of SetResourceWithName from the i-th placeholder found
RECURSIVE Substitute(_, _, _, _)
Substitute(resource, resultKey, pathParameter, i) ==
    IF i > Len(resultKey) THEN resource
    ELSE LET sourcekey == resultKey[i]
             found == pathParameter[KeyOf(sourcekey)]
             value == IF found = Empty THEN Star ELSE found
         IN Substitute(ReplaceFirst(resource, sourcekey, value),
                       resultKey, pathParameter, i + 1)

\* SetResourceWithName: the chain of the instantiated template;
\* pathParameter maps each placeholder name to the value looked up
SetResourceWithName(resource, pathParameter) ==
    ParseResourceName(Substitute(resource, FindAllString(resource), pathParameter, 1))

-----------------------------------------------------------------------------
(* The datastore and GetUserPermissions *)

P1 == <<"p1">>
P2 == <<"p2">>
P3 == <<"p3">>

Perm(name, project, resources, actions, effect) ==
    [Name |-> name, Project |-> project, Resources |-> resources,
     Actions |-> actions, Effect |-> effect]

Role(name, project, perms) == [Name |-> name, Project |-> project, Permissions |-> perms]

InProject(project, rest) == Slash(Seg("project", project[1]), rest)

\* A platform with the admin role, a role "ops" naming the platform
\* permission role-management and a role "no-shell" naming the default
\* permission disable-cloudshell, and the project p1 with three of its
\* default permissions, two of its default roles and a role "guarded"
\* whose Deny permission forbids deleting the project's environments.
TheStore ==
    [ users |-> << [Name |-> "admin", UserRoles |-> <<"admin">>],
                   [Name |-> "alice", UserRoles |-> <<"ops">>],
                   [Name |-> "bob", UserRoles |-> <<>>],
                   [Name |-> "carol", UserRoles |-> <<"admin">>],
                   [Name |-> "dave", UserRoles |-> <<"no-shell">>] >>,
      roles |-> << Role("admin", Empty, <<"admin">>),
                   Role("ops", Empty, <<"role-management">>),
                   Role("no-shell", Empty, <<"disable-cloudshell">>),
                   Role("project-viewer", P1, <<"project-view">>),
                   Role("app-developer", P1, <<"project-view", "app-management">>),
                   Role("guarded", P1, <<"env-protect">>) >>,
      perms |-> << Perm("admin", Empty, <<Star>>, <<"*">>, EffAllow),
                   Perm("disable-cloudshell", Empty, <<<<"cloudshell">>>>, <<"*">>,
                        EffDeny),
                   Perm("role-management", Empty,
                        <<Seg("role", "*"), Seg("permission", "*")>>, <<"*">>, EffAllow),
                   Perm("project-view", P1,
                        << Seg("project", "p1"),
                           InProject(P1, Seg("environment", "*")),
                           InProject(P1, Slash(Seg("application", "*"), Star)) >>,
                        <<"detail", "list">>, EffAllow),
                   Perm("app-management", P1,
                        <<InProject(P1, Slash(Seg("application", "*"), Star))>>,
                        <<"*">>, EffAllow),
                   Perm("role-management", P1,
                        << InProject(P1, Seg("role", "*")),
                           InProject(P1, Seg("permission", "*")) >>,
                        <<"*">>, EffAllow),
                   Perm("env-protect", P1,
                        <<InProject(P1, Seg("environment", "*"))>>, <<"delete">>,
                        EffDeny) >>,
      projectUsers |-> << [ProjectName |-> P1, Username |-> "alice",
                           UserRoles |-> <<"project-viewer">>],
                          [ProjectName |-> P1, Username |-> "bob",
                           UserRoles |-> <<"app-developer">>],
                          [ProjectName |-> P1, Username |-> "carol",
                           UserRoles |-> <<"guarded">>] >>,
      apps |-> << [Name |-> <<"app1">>, Project |-> P1] >>,
      envs |-> << [Name |-> <<"env1">>, Project |-> P1],
                  [Name |-> <<"env2">>, Project |-> P2] >> ]

\* one store read: its kind and how it ended ("ok", "notfound", "fail")
Read(kind, result) == [kind |-> kind, result |-> result]

\* Store.Get, hits being the records of the key: "fail" when the store
\* fails, else found or not
GetResult(hits, fail) ==
    IF fail THEN "fail" ELSE IF hits # <<>> THEN "ok" ELSE "notfound"

GetEntity(hits) == hits[1]

\* the permission names of a list of roles, in order
RECURSIVE PermissionNames(_)
PermissionNames(roleList) ==
    IF roleList = <<>> THEN <<>>
    ELSE Head(roleList).Permissions \o PermissionNames(Tail(roleList))

\* listPermPolices: no read for an empty name list; else one List of the
\* permissions of the scope whose name is in the list.  [err, perms, reads]
listPermPolices(st, project, permissionNames, kind, fail) ==
    IF Len(permissionNames) = 0
    THEN [err |-> FALSE, perms |-> <<>>, reads |-> <<>>]
    ELSE IF fail
         THEN [err |-> TRUE, perms |-> <<>>, reads |-> <<Read(kind, "fail")>>]
         ELSE [err |-> FALSE,
               perms |-> SelectSeq(st.perms,
                             LAMBDA q : /\ q.Project = project
                                        /\ StringsContain(permissionNames, q.Name)),
               reads |-> <<Read(kind, "ok")>>]

cloudshell ==
    Perm("cloudshell", Empty, <<<<"cloudshell">>>>, <<"*">>, EffAllow)

PermReadKinds ==
    {"platformRoles", "platformPerms", "projectUser", "projectRoles", "projectPerms"}

\* the project part of GetUserPermissions, after the platform part gave
\* the names and permissions so far
ProjectPermissions(st, u, project, names, perms, rds, fails) ==
    IF project = Empty
    THEN [err |-> FALSE, perms |-> perms, reads |-> rds]
    ELSE LET projectUser ==
                 SelectSeq(st.projectUsers,
                     LAMBDA m : m.ProjectName = project /\ m.Username = u.Name)
             got == GetResult(projectUser, "projectUser" \in fails)
             roles == IF got = "ok" THEN GetEntity(projectUser).UserRoles
                      ELSE <<>>
             rds1 == Append(rds, Read("projectUser", got))
         IN IF Len(roles) = 0
            THEN [err |-> FALSE, perms |-> perms, reads |-> rds1]
            ELSE IF "projectRoles" \in fails
                 THEN [err |-> TRUE, perms |-> <<>>,
                       reads |-> Append(rds1, Read("projectRoles", "fail"))]
                 ELSE LET entities ==
                              SelectSeq(st.roles,
                                  LAMBDA e : /\ e.Project = project
                                             /\ StringsContain(roles, e.Name))
                          allNames == names \o PermissionNames(entities)
                          lp == listPermPolices(st, project, allNames, "projectPerms",
                                                "projectPerms" \in fails)
                          rds2 == Append(rds1, Read("projectRoles", "ok")) \o lp.reads
                      IN IF lp.err
                         THEN [err |-> TRUE, perms |-> <<>>, reads |-> rds2]
                         ELSE [err |-> FALSE, perms |-> perms \o lp.perms, reads |-> rds2]

\* GetUserPermissions returning the permissions of the roles only
GetUserPermissions_NoCloudshell(st, u, project, withPlatform, fails) ==
    LET platform ==
            IF withPlatform /\ Len(u.UserRoles) > 0
            THEN IF "platformRoles" \in fails
                 THEN [err |-> TRUE, names |-> <<>>, perms |-> <<>>,
                       reads |-> <<Read("platformRoles", "fail")>>]
                 ELSE LET entities ==
                              SelectSeq(st.roles,
                                  LAMBDA e : /\ e.Project = Empty
                                             /\ StringsContain(u.UserRoles, e.Name))
                          names == PermissionNames(entities)
                          lp == listPermPolices(st, Empty, names, "platformPerms",
                                                "platformPerms" \in fails)
                      IN [err |-> lp.err, names |-> names, perms |-> lp.perms,
                          reads |-> <<Read("platformRoles", "ok")>> \o lp.reads]
            ELSE [err |-> FALSE, names |-> <<>>, perms |-> <<>>, reads |-> <<>>]
    IN IF platform.err
       THEN [err |-> TRUE, perms |-> <<>>, reads |-> platform.reads]
       ELSE ProjectPermissions(st, u, project, platform.names, platform.perms,
                               platform.reads, fails)

\* GetUserPermissions; fails is the set of its store reads that fail.
\* Gives [err, perms, reads], the cloudshell permission appended last.
GetUserPermissions(st, u, project, withPlatform, fails) ==
    LET platform ==
            IF withPlatform /\ Len(u.UserRoles) > 0
            THEN IF "platformRoles" \in fails
                 THEN [err |-> TRUE, names |-> <<>>, perms |-> <<>>,
                       reads |-> <<Read("platformRoles", "fail")>>]
                 ELSE LET entities ==
                              SelectSeq(st.roles,
                                  LAMBDA e : /\ e.Project = Empty
                                             /\ StringsContain(u.UserRoles, e.Name))
                          names == PermissionNames(entities)
                          lp == listPermPolices(st, Empty, names, "platformPerms",
                                                "platformPerms" \in fails)
                      IN [err |-> lp.err, names |-> names, perms |-> lp.perms,
                          reads |-> <<Read("platformRoles", "ok")>> \o lp.reads]
            ELSE [err |-> FALSE, names |-> <<>>, perms |-> <<>>, reads |-> <<>>]
        all == IF platform.err
               THEN [err |-> TRUE, perms |-> <<>>, reads |-> platform.reads]
               ELSE ProjectPermissions(st, u, project, platform.names, platform.perms,
                                       platform.reads, fails)
    IN IF all.err THEN all
       ELSE [err |-> FALSE, perms |-> Append(all.perms, cloudshell), reads |-> all.reads]

-----------------------------------------------------------------------------
(* Inputs of the pure-function specifications *)

\* every string of 1..n tokens of T joined by "/"
RECURSIVE Joined(_, _)
Joined(T, n) ==
    IF n <= 1 THEN T
    ELSE LET shorter == Joined(T, n - 1)
         IN shorter \cup {Slash(a, t) : a \in shorter, t \in T}

Malformed == <<"a", ":", "b", ":", "c">>

PatternTokens ==
    { Seg("project", "p1"), Seg("project", "*"), Seg("application", "*"),
      Star, <<"project">>, Empty, Malformed }

TargetTokens ==
    { Seg("project", "p1"), Seg("project", "*"), Seg("application", "a1"),
      Seg("component", "c1"), Empty, Malformed }

ProjectStar == Seg("project", "*")
ProjectFoo == Seg("project", "foo")
ProjectFooAppBar == Slash(Seg("project", "foo"), Seg("application", "bar"))
ProjectStarStar == Slash(Seg("project", "*"), Star)

ScenarioPatterns == { ProjectStar, ProjectFooAppBar, ProjectStarStar, ProjectFoo }
ScenarioTargets == { ProjectFooAppBar, ProjectFoo, ProjectStarStar, ProjectStar }

PatternStrings == Joined(PatternTokens, MaxSegs) \cup ScenarioPatterns
TargetStrings == Joined(TargetTokens, MaxSegs) \cup ScenarioTargets

Idle == [pc |-> "idle"]

None == [none |-> TRUE]

\* the filter's variables in the specifications that do not run it
FilterIdle ==
    /\ store = None
    /\ req = None
    /\ pc = "idle"
    /\ user = None
    /\ ra = None
    /\ projectName = Empty
    /\ permissions = <<>>
    /\ reads = <<>>
    /\ response = <<>>
    /\ chain = 0
    /\ ctx = None

-----------------------------------------------------------------------------
(* SpecRN: one call pattern.Match(target) on parsed strings *)

InitRN ==
    /\ rn \in [pattern : PatternStrings, target : TargetStrings,
                pc : {"call"}, out : {FALSE}]
    /\ pol = Idle
    /\ call = Idle
    /\ FilterIdle

RNMatch ==
    /\ rn.pc = "call"
    /\ rn' = [rn EXCEPT !.pc = "done",
                        !.out = ResourceNameMatch(ParseResourceName(rn.pattern),
                                                  ParseResourceName(rn.target))]
    /\ UNCHANGED <<pol, call, filterVars>>

NextRN == RNMatch

SpecRN == InitRN /\ [][NextRN]_vars

-----------------------------------------------------------------------------
(* SpecTokens: pattern.Match(target) on strings with empty tokens and    *)
(* tokens of three parts, without wildcards                              *)

MaxTokens == 3

\* a parameter value holding `:` put after the type
ColonValue == <<"cluster", ":", "a", ":", "b">>

TokenPatterns ==
    Joined({ Seg("project", "p1"), Seg("x", "y"), Malformed, Empty }, MaxTokens)

TokenTargets == Joined({ Seg("project", "p1"), Seg("x", "y"), ColonValue }, 2)

InitTokens ==
    /\ rn \in [pattern : TokenPatterns, target : TokenTargets,
                pc : {"call"}, out : {FALSE}]
    /\ pol = Idle
    /\ call = Idle
    /\ FilterIdle

NextTokens == RNMatch

SpecTokens == InitTokens /\ [][NextTokens]_vars

-----------------------------------------------------------------------------
(* SpecPolicy: one call RequestResourceAction.Match(policies) *)

PolicyEffects == { EffAllow, EffDeny, EffDENY, Empty }

ClusterStar == Seg("cluster", "*")
ClusterC1 == Seg("cluster", "c1")
P1AppStar == Slash(Seg("project", "p1"), Seg("application", "*"))
P1AppStarStar == Slash(P1AppStar, Star)
P1App1Comp1 ==
    Slash(Slash(Seg("project", "p1"), Seg("application", "app1")),
          Seg("component", "comp1"))

PolicyResources == { <<ClusterStar>>, <<Star>>, <<P1AppStar>>, <<P1AppStarStar>> }

PolicyActions == { <<"*">>, <<"list", "detail">>, <<"detail">> }

\* policies of one resource pattern, and two policies of two patterns
PolicyUniverse ==
    [Resources : PolicyResources, Actions : PolicyActions, Effect : PolicyEffects]
        \cup [Resources : {<<<<"cloudshell">>, ClusterStar>>}, Actions : {<<"*">>},
              Effect : {EffAllow, EffDeny}]

RequestActions == { <<"list">>, <<"list", "delete">>, <<>> }

\* the requests: [resource, actions]
Requests ==
    [resource : {ClusterC1}, actions : RequestActions]
        \cup [resource : {P1App1Comp1}, actions : {<<"detail">>}]

\* every list of at most n policies
RECURSIVE PolicyLists(_)
PolicyLists(n) ==
    IF n = 0 THEN { <<>> }
    ELSE LET shorter == PolicyLists(n - 1)
         IN shorter \cup {Append(l, q) : l \in shorter, q \in PolicyUniverse}

\* the request descriptor built by SetResourceWithName and SetActions
RequestOf(resource, actions) ==
    [resource |-> ParseResourceName(resource), actions |-> actions]

InitPolicy ==
    /\ \E l \in PolicyLists(MaxPolicies), q \in Requests :
           pol = [policies |-> l, resource |-> q.resource, actions |-> q.actions,
                  pc |-> "call", matched |-> <<>>, out |-> FALSE]
    /\ rn = Idle
    /\ call = Idle
    /\ FilterIdle

\* the call, recording beside its result what match gave for each policy
PolicyMatch ==
    /\ pol.pc = "call"
    /\ LET r == RequestOf(pol.resource, pol.actions)
       IN pol' = [pol EXCEPT
                      !.pc = "done",
                      !.matched = [i \in 1..Len(pol.policies) |->
                                       match(r, pol.policies[i])],
                      !.out = Match(r, pol.policies)]
    /\ UNCHANGED <<rn, call, filterVars>>

NextPolicy == PolicyMatch

SpecPolicy == InitPolicy /\ [][NextPolicy]_vars

-----------------------------------------------------------------------------
(* SpecPerms: GetUserPermissions, then a request on cloudshell matched *)
(* against the permissions it returned                                  *)

CloudshellActions == { <<"create">>, <<"*">>, <<"create", "delete">>, <<>> }

InitPerms ==
    /\ \E i \in 1..Len(TheStore.users), project \in {Empty, P1, P2},
          withPlatform \in BOOLEAN, fails \in SUBSET PermReadKinds,
          actions \in CloudshellActions :
           call = [op |-> "GetUserPermissions", user |-> TheStore.users[i],
                   project |-> project, withPlatform |-> withPlatform,
                   fails |-> fails, actions |-> actions, pc |-> "call",
                   err |-> FALSE, perms |-> <<>>, permitted |-> FALSE]
    /\ rn = Idle
    /\ pol = Idle
    /\ FilterIdle

PermsCall ==
    /\ call.pc = "call"
    /\ LET got == GetUserPermissions(TheStore, call.user, call.project,
                                     call.withPlatform, call.fails)
       IN call' = [call EXCEPT !.pc = IF got.err THEN "done" ELSE "match",
                               !.err = got.err,
                               !.perms = got.perms]
    /\ UNCHANGED <<rn, pol, filterVars>>

\* the descriptor of a request on the resource cloudshell, matched
PermsMatch ==
    /\ call.pc = "match"
    /\ LET path == checkResourcePath(<<"cloudshell">>).path
           r == [resource |-> SetResourceWithName(path, [k \in KeysOf(path) |-> Empty]),
                 actions |-> call.actions]
       IN call' = [call EXCEPT !.pc = "done", !.permitted = Match(r, call.perms)]
    /\ UNCHANGED <<rn, pol, filterVars>>

NextPerms == PermsCall \/ PermsMatch

SpecPerms == InitPerms /\ [][NextPerms]_vars

-----------------------------------------------------------------------------
(* SpecPath: one call checkResourcePath(resource), one step for each     *)
(* iteration of its loop over the index map, whose order is not fixed,   *)
(* then the template instantiated                                       *)

\* types of the schema of every depth, and one type that is not declared
NameTypes ==
    { "project", "application", "component", "trait", "workflow", "record",
      "environment", "role", "permission", "config", "configType", "cluster",
      "namespace", "cloudshell", "widget" }

\* every type the schema declares
SchemaTypes ==
    UNION { { e[1][i] : i \in 1..Len(e[1]) } : e \in existResourcePaths } \ {"/"}

\* the names of one type, and those of several of the types of NameTypes
ResourceTypeNames ==
    Joined({ <<t>> : t \in NameTypes }, MaxParts) \cup { <<t>> : t \in SchemaTypes }

\* the path parameters of the request the template is instantiated for
InstLookup(name) ==
    CASE name = <<"projectName">> -> <<"p1">>
      [] name = <<"appName">> -> <<"a1">>
      [] name = <<"compName">> -> <<"c1">>
      [] OTHER -> Empty

InitPath ==
    /\ \E n \in ResourceTypeNames :
           call = [op |-> "checkResourcePath", resource |-> n, pc |-> "call",
                   remaining |-> {}, path |-> Empty, exist |-> 0,
                   out |-> [path |-> Empty, err |-> ""], inst |-> <<>>]
    /\ rn = Idle
    /\ pol = Idle
    /\ FilterIdle

\* PathLookup without the branch for top-level keys
PathLookup_NoTopLevel ==
    /\ call.pc = "call"
    /\ call' = [call EXCEPT
                    !.pc = "scan",
                    !.remaining = { e \in existResourcePaths :
                                      PathMatches(call.resource, e) }]
    /\ UNCHANGED <<rn, pol, filterVars>>

\* the lookup in ResourceMaps; else the loop starts.  An entry that fails
\* the test of the loop leaves path and exist as they are, so the entries
\* still to visit are kept for those that pass it only.
PathLookup ==
    /\ call.pc = "call"
    /\ IF Len(call.resource) = 1 /\ call.resource[1] \in DOMAIN ResourceMaps
       THEN call' = [call EXCEPT
                        !.pc = "done",
                        !.out = [path |-> WithPathName(call.resource[1],
                                              ResourceMaps[call.resource[1]].pathName),
                                 err |-> ""]]
       ELSE call' = [call EXCEPT
                        !.pc = "scan",
                        !.remaining = { e \in existResourcePaths :
                                          PathMatches(call.resource, e) }]
    /\ UNCHANGED <<rn, pol, filterVars>>

\* one iteration, on any entry not visited yet
PathScan ==
    /\ call.pc = "scan"
    /\ \E e \in call.remaining :
           LET acc == ScanBody(call.resource, e, [path |-> call.path, exist |-> call.exist])
           IN call' = [call EXCEPT !.remaining = call.remaining \ {e},
                                   !.path = acc.path,
                                   !.exist = acc.exist]
    /\ UNCHANGED <<rn, pol, filterVars>>

\* the end of the loop
PathReturn ==
    /\ call.pc = "scan"
    /\ call.remaining = {}
    /\ call' = [call EXCEPT !.pc = "done",
                            !.out = PathResult([path |-> call.path, exist |-> call.exist])]
    /\ UNCHANGED <<rn, pol, filterVars>>

\* ra.SetResourceWithName(path, ...) for a path resolved without error
PathInstantiate ==
    /\ call.pc = "done"
    /\ call.out.err = ""
    /\ call' = [call EXCEPT
                    !.pc = "inst",
                    !.inst = SetResourceWithName(call.out.path,
                                 [k \in KeysOf(call.out.path) |-> InstLookup(k)])]
    /\ UNCHANGED <<rn, pol, filterVars>>

NextPath == PathLookup \/ PathScan \/ PathReturn \/ PathInstantiate

SpecPath == InitPath /\ [][NextPath]_vars

-----------------------------------------------------------------------------
(* SpecReg: calls CheckPerm(resource, actions...), and requests through  *)
(* the filters they returned                                            *)

\* the sequences listing each element of S once
RECURSIVE PermSeqs(_)
PermSeqs(S) ==
    IF S = {} THEN { <<>> }
    ELSE UNION { { <<x>> \o q : q \in PermSeqs(S \ {x}) } : x \in S }

\* the orders in which the range over existResourcePaths can visit the
\* entries: those passing the loop's test in every order, then the others,
\* which the loop skips
IterationOrders(resource) ==
    LET hits == { e \in existResourcePaths : PathMatches(resource, e) }
        others == SetToSeq(existResourcePaths \ hits)
    IN { q \o others : q \in PermSeqs(hits) }

\* the resource names routes are registered with: unique, top-level,
\* ambiguous, unknown
RegisteredNames ==
    { <<"component">>, <<"role">>, <<"environment">>, <<"application", "/", "workflow">>,
      <<"workflow">>, <<"widget">>, <<"project", "/", "trait">> }

RegisteredActions == { <<"list">>, <<"detail">>, <<"list", "create">> }

NoRegistry == [x \in {} |-> <<>>]

\* each action appended unless the list holds it
RECURSIVE AppendMissing(_, _)
AppendMissing(list, actions) ==
    IF actions = <<>> THEN list
    ELSE AppendMissing(IF StringsContain(list, Head(actions)) THEN list
                       ELSE Append(list, Head(actions)),
                       Tail(actions))

InitReg ==
    /\ call = [op |-> "CheckPerm", pc |-> "run", n |-> 0,
               resourceActions |-> NoRegistry, filters |-> {},
               attempt |-> None, before |-> None, served |-> None]
    /\ rn = Idle
    /\ pol = Idle
    /\ FilterIdle

\* CheckPerm registering the resource though its path is not resolved
CheckPermRegister_NoPanic ==
    /\ call.pc = "run"
    /\ call.n < MaxRegistrations
    /\ \E resource \in RegisteredNames, actions \in RegisteredActions :
         \E order \in IterationOrders(resource) :
           LET got == checkResourcePathIn(resource, order)
               filter == [resource |-> resource, actions |-> actions, path |-> got.path]
               registry ==
                   IF got.path \in DOMAIN call.resourceActions
                   THEN [call.resourceActions EXCEPT
                            ![got.path] = AppendMissing(@, actions)]
                   ELSE (got.path :> actions) @@ call.resourceActions
           IN call' = [call EXCEPT
                          !.n = call.n + 1,
                          !.attempt = [resource |-> resource, actions |-> actions],
                          !.before = [resourceActions |-> call.resourceActions,
                                      filters |-> call.filters],
                          !.resourceActions = registry,
                          !.filters = call.filters \cup {filter}]
    /\ UNCHANGED <<rn, pol, filterVars>>

\* CheckPerm up to its return: registerResourceAction, which panics when
\* the path is not resolved, then the filter built for the resource
CheckPermRegister ==
    /\ call.pc = "run"
    /\ call.n < MaxRegistrations
    /\ \E resource \in RegisteredNames, actions \in RegisteredActions :
         \E order \in IterationOrders(resource) :
           LET got == checkResourcePathIn(resource, order)
               filter == [resource |-> resource, actions |-> actions, path |-> got.path]
               registry ==
                   IF got.path \in DOMAIN call.resourceActions
                   THEN [call.resourceActions EXCEPT
                            ![got.path] = AppendMissing(@, actions)]
                   ELSE (got.path :> actions) @@ call.resourceActions
           IN IF got.err # ""
              THEN call' = [call EXCEPT
                               !.pc = "panicked",
                               !.n = call.n + 1,
                               !.attempt = [resource |-> resource, actions |-> actions],
                               !.before = [resourceActions |-> call.resourceActions,
                                           filters |-> call.filters]]
              ELSE call' = [call EXCEPT
                               !.n = call.n + 1,
                               !.attempt = [resource |-> resource, actions |-> actions],
                               !.before = [resourceActions |-> call.resourceActions,
                                           filters |-> call.filters],
                               !.resourceActions = registry,
                               !.filters = call.filters \cup {filter}]
    /\ UNCHANGED <<rn, pol, filterVars>>

\* a request through a returned filter, up to the resolution of the path:
\* Forbidden on an error, else the filter goes on
FilterResolve ==
    /\ call.pc = "run"
    /\ \E f \in call.filters :
         \E order \in IterationOrders(f.resource) :
           LET got == checkResourcePathIn(f.resource, order)
           IN call' = [call EXCEPT
                          !.served = [filter |-> f, path |-> got.path, err |-> got.err,
                                      response |-> IF got.err # "" THEN <<"Forbidden">>
                                                   ELSE <<>>]]
    /\ UNCHANGED <<rn, pol, filterVars>>

NextReg == CheckPermRegister \/ FilterResolve

SpecReg == InitReg /\ [][NextReg]_vars

-----------------------------------------------------------------------------
(* SpecRoundTrip: ParseResourceName(s), String() of the chain, and the   *)
(* string parsed again                                                  *)

RoundTripTokens ==
    PatternTokens \cup TargetTokens
        \cup { <<"a", ":">>, <<":", "v">>, <<":">>, <<"*", ":", "x">> }

RoundTripStrings == Joined(RoundTripTokens, MaxSegs)

InitRoundTrip ==
    /\ \E str \in RoundTripStrings :
           call = [op |-> "ParseResourceName", s |-> str, pc |-> "parse",
                   c |-> <<>>, str |-> Empty, back |-> <<>>]
    /\ rn = Idle
    /\ pol = Idle
    /\ FilterIdle

RoundTripParse ==
    /\ call.pc = "parse"
    /\ call' = [call EXCEPT !.pc = "string", !.c = ParseResourceName(call.s)]
    /\ UNCHANGED <<rn, pol, filterVars>>

RoundTripString ==
    /\ call.pc = "string"
    /\ call' = [call EXCEPT !.pc = "reparse", !.str = ResourceNameString(call.c)]
    /\ UNCHANGED <<rn, pol, filterVars>>

RoundTripReparse ==
    /\ call.pc = "reparse"
    /\ call' = [call EXCEPT !.pc = "done", !.back = ParseResourceName(call.str)]
    /\ UNCHANGED <<rn, pol, filterVars>>

NextRoundTrip == RoundTripParse \/ RoundTripString \/ RoundTripReparse

SpecRoundTrip == InitRoundTrip /\ [][NextRoundTrip]_vars

-----------------------------------------------------------------------------
(* SpecStore: the role and permission operations of the service, one at  *)
(* a time, on a store of projects, permissions and roles                *)

\* a platform permission and role, and the project p1 with one permission
StoreOfRoles ==
    [ projects |-> <<[Name |-> P1]>>,
      perms |-> << Perm("a", Empty, <<Star>>, <<"*">>, EffAllow),
                   Perm("a", P1, <<Star>>, <<"*">>, EffAllow) >>,
      roles |-> << Role("r", Empty, <<"a">>) >> ]

\* scopes of the calls: the platform, the project, a project not stored
CallProjects == {Empty, P1, P2}

PermNames == {"a", "b"}

RoleNames == {"r"}

\* the permission lists of the role requests
RolePermLists ==
    { <<>>, <<"a">>, <<"b">>, <<"a", "b">>, <<"b", "a">>, <<"a", "a">> }

\* the records of the key, in the store's order
Stored(records, project, name) ==
    SelectSeq(records, LAMBDA e : e.Project = project /\ e.Name = name)

\* Store.Add and Store.Put of a record: the store lists by key, not by
\* the time of the insertion
Put(records, rec) ==
    SetToSeq({ records[i] : i \in { j \in 1..Len(records) :
                                        ~( /\ records[j].Project = rec.Project
                                           /\ records[j].Name = rec.Name ) } }
             \cup {rec})

\* Store.Delete of the key
Deleted(records, project, name) ==
    SelectSeq(records, LAMBDA e : ~(e.Project = project /\ e.Name = name))

\* Store.Get(&project) returning an error
ProjectMissing(st, project, fault) ==
    /\ project # Empty
    /\ \/ fault = "project"
       \/ \A i \in 1..Len(st.projects) : st.projects[i].Name # project

\* repository.ListRoles(ctx, store, projectName, 0, 0): the roles of the
\* scope
ListRoles(st, project) == SelectSeq(st.roles, LAMBDA e : e.Project = project)

\* the call returned: what it was and the error it gave ("" for nil)
Returns(op, project, name, permissionList, fault, err) ==
    call' = [op |-> op, project |-> project, name |-> name,
             permissions |-> permissionList, fault |-> fault, err |-> err]

InitStore ==
    /\ store = StoreOfRoles
    /\ call = [op |-> "none", project |-> Empty, name |-> "", permissions |-> <<>>,
               fault |-> "none", err |-> ""]
    /\ rn = Idle
    /\ pol = Idle
    /\ req = None
    /\ pc = "idle"
    /\ user = None
    /\ ra = None
    /\ projectName = Empty
    /\ permissions = <<>>
    /\ reads = <<>>
    /\ response = <<>>
    /\ chain = 0
    /\ ctx = None

\* CreatePermission for requests whose project, name, actions and effect are
\* drawn from the given sets; empty actions become `*`, an empty effect Allow
CreatePermissionOf(projects, names, actionLists, effects) ==
    /\ \E project \in projects, name \in names, resources \in {<<>>, <<Star>>},
          reqActions \in actionLists, reqEffect \in effects,
          fault \in {"none", "project", "write"} :
           LET permission ==
                   Perm(name, project, resources,
                        IF Len(reqActions) = 0 THEN <<"*">> ELSE reqActions,
                        IF reqEffect = Empty THEN EffAllow ELSE reqEffect)
               err == IF ProjectMissing(store, project, fault)
                      THEN "ErrProjectIsNotExist"
                      ELSE IF Len(resources) = 0 THEN "ErrRolePermissionCheckFailure"
                      ELSE IF fault = "write" THEN "store error"
                      ELSE IF Stored(store.perms, project, name) # <<>>
                           THEN "ErrPermissionIsExist"
                           ELSE ""
           IN /\ Returns("CreatePermission", project, name, <<>>, fault, err)
              /\ store' = IF err = ""
                          THEN [store EXCEPT !.perms = Put(store.perms, permission)]
                          ELSE store
    /\ UNCHANGED <<rn, pol, req, pc, user, ra, projectName, permissions, reads,
                   response, chain, ctx>>

CreatePermission == CreatePermissionOf(CallProjects, PermNames, {<<>>}, {Empty})

DeletePermission ==
    /\ \E project \in CallProjects, permName \in PermNames,
          fault \in {"none", "roles", "write"} :
           LET roles == ListRoles(store, project)
               err == IF fault = "roles" THEN "ErrPermissionIsUsed"
                      ELSE IF \E i \in 1..Len(roles) :
                                 StringsContain(roles[i].Permissions, permName)
                           THEN "ErrPermissionIsUsed"
                      ELSE IF fault = "write" THEN "store error"
                      ELSE IF Stored(store.perms, project, permName) = <<>>
                           THEN "ErrRoleIsNotExist"
                           ELSE ""
           IN /\ Returns("DeletePermission", project, permName, <<>>, fault, err)
              /\ store' = IF err = ""
                          THEN [store EXCEPT
                                   !.perms = Deleted(store.perms, project, permName)]
                          ELSE store
    /\ UNCHANGED <<rn, pol, req, pc, user, ra, projectName, permissions, reads,
                   response, chain, ctx>>

\* CreateRole without the comparison of the permissions found
CreateRole_NoCheck ==
    /\ \E project \in CallProjects, name \in RoleNames, perms \in RolePermLists,
          fault \in {"none", "project", "perms", "write"} :
           LET policies == listPermPolices(store, project, perms, "perms", fault = "perms")
               err == IF ProjectMissing(store, project, fault)
                      THEN "ErrProjectIsNotExist"
                      ELSE IF Len(perms) = 0 THEN "ErrRolePermissionCheckFailure"
                      ELSE IF policies.err
                           THEN "ErrRolePermissionCheckFailure"
                      ELSE IF fault = "write" THEN "store error"
                      ELSE IF Stored(store.roles, project, name) # <<>>
                           THEN "ErrRoleIsExist"
                           ELSE ""
           IN /\ Returns("CreateRole", project, name, perms, fault, err)
              /\ store' = IF err = ""
                          THEN [store EXCEPT
                                   !.roles = Put(store.roles, Role(name, project, perms))]
                          ELSE store
    /\ UNCHANGED <<rn, pol, req, pc, user, ra, projectName, permissions, reads,
                   response, chain, ctx>>

CreateRole ==
    /\ \E project \in CallProjects, name \in RoleNames, perms \in RolePermLists,
          fault \in {"none", "project", "perms", "write"} :
           LET policies == listPermPolices(store, project, perms, "perms", fault = "perms")
               err == IF ProjectMissing(store, project, fault)
                      THEN "ErrProjectIsNotExist"
                      ELSE IF Len(perms) = 0 THEN "ErrRolePermissionCheckFailure"
                      ELSE IF policies.err \/ Len(policies.perms) # Len(perms)
                           THEN "ErrRolePermissionCheckFailure"
                      ELSE IF fault = "write" THEN "store error"
                      ELSE IF Stored(store.roles, project, name) # <<>>
                           THEN "ErrRoleIsExist"
                           ELSE ""
           IN /\ Returns("CreateRole", project, name, perms, fault, err)
              /\ store' = IF err = ""
                          THEN [store EXCEPT
                                   !.roles = Put(store.roles, Role(name, project, perms))]
                          ELSE store
    /\ UNCHANGED <<rn, pol, req, pc, user, ra, projectName, permissions, reads,
                   response, chain, ctx>>

UpdateRole ==
    /\ \E project \in CallProjects, roleName \in RoleNames, perms \in RolePermLists,
          fault \in {"none", "project", "perms", "role", "write"} :
           LET policies == listPermPolices(store, project, perms, "perms", fault = "perms")
               err == IF ProjectMissing(store, project, fault)
                      THEN "ErrProjectIsNotExist"
                      ELSE IF Len(perms) = 0 THEN "ErrRolePermissionCheckFailure"
                      ELSE IF policies.err \/ Len(policies.perms) # Len(perms)
                           THEN "ErrRolePermissionCheckFailure"
                      ELSE IF fault = "role" THEN "store error"
                      ELSE IF Stored(store.roles, project, roleName) = <<>>
                           THEN "ErrRoleIsNotExist"
                      ELSE IF fault = "write" THEN "store error"
                           ELSE ""
           IN /\ Returns("UpdateRole", project, roleName, perms, fault, err)
              /\ store' = IF err = ""
                          THEN [store EXCEPT
                                   !.roles = Put(store.roles,
                                                 Role(roleName, project, perms))]
                          ELSE store
    /\ UNCHANGED <<rn, pol, req, pc, user, ra, projectName, permissions, reads,
                   response, chain, ctx>>

DeleteRole ==
    /\ \E project \in CallProjects, roleName \in RoleNames, fault \in {"none", "write"} :
           LET err == IF fault = "write" THEN "store error"
                      ELSE IF Stored(store.roles, project, roleName) = <<>>
                           THEN "ErrRoleIsNotExist"
                           ELSE ""
           IN /\ Returns("DeleteRole", project, roleName, <<>>, fault, err)
              /\ store' = IF err = ""
                          THEN [store EXCEPT
                                   !.roles = Deleted(store.roles, project, roleName)]
                          ELSE store
    /\ UNCHANGED <<rn, pol, req, pc, user, ra, projectName, permissions, reads,
                   response, chain, ctx>>

NextStore ==
    \/ CreatePermission
    \/ DeletePermission
    \/ CreateRole
    \/ UpdateRole
    \/ DeleteRole

SpecStore == InitStore /\ [][NextStore]_vars

-----------------------------------------------------------------------------
(* SpecInterleave: one DeletePermission call and one CreateRole or       *)
(* UpdateRole call of the same scope, one store access per step          *)

\* the project with two permissions and a role naming one of them
StoreOfInterleave ==
    [ projects |-> <<[Name |-> P1]>>,
      perms |-> << Perm("a", P1, <<Star>>, <<"*">>, EffAllow),
                   Perm("b", P1, <<Star>>, <<"*">>, EffAllow) >>,
      roles |-> << Role("r", P1, <<"b">>) >> ]

\* the role requests: CreateRole of a new role, UpdateRole of the stored one
RoleRequests ==
    [ op : {"CreateRole"}, name : {"s"}, perms : {<<"a">>, <<"a", "b">>} ]
        \cup [ op : {"UpdateRole"}, name : {"r"}, perms : {<<"a">>, <<"b">>} ]

NotCalled == [pc |-> "idle"]

InitInterleave ==
    /\ store = StoreOfInterleave
    /\ call = [op |-> "interleave", d |-> NotCalled, w |-> NotCalled]
    /\ rn = Idle
    /\ pol = Idle
    /\ req = None
    /\ pc = "idle"
    /\ user = None
    /\ ra = None
    /\ projectName = Empty
    /\ permissions = <<>>
    /\ reads = <<>>
    /\ response = <<>>
    /\ chain = 0
    /\ ctx = None

\* DeletePermission(ctx, projectName, permName) is called
DeleteCall ==
    /\ call.d.pc = "idle"
    /\ \E permName \in PermNames :
           call' = [call EXCEPT !.d = [pc |-> "list", project |-> P1,
                                       permName |-> permName]]
    /\ UNCHANGED <<rn, pol, filterVars>>

\* roles, _, err := repository.ListRoles(...)
DeleteListRoles ==
    /\ call.d.pc = "list"
    /\ \E fail \in BOOLEAN :
           call' = [call EXCEPT !.d =
                       IF fail THEN [pc |-> "done", err |-> "ErrPermissionIsUsed"] @@ @
                       ELSE [pc |-> "delete",
                             roles |-> ListRoles(store, call.d.project)] @@ @]
    /\ UNCHANGED <<rn, pol, filterVars>>

\* the loop over the roles read, then Store.Delete
DeleteStore ==
    /\ call.d.pc = "delete"
    /\ \E fail \in BOOLEAN :
           LET me == call.d
               err == IF \E i \in 1..Len(me.roles) :
                            StringsContain(me.roles[i].Permissions, me.permName)
                      THEN "ErrPermissionIsUsed"
                      ELSE IF fail THEN "store error"
                      ELSE IF Stored(store.perms, me.project, me.permName) = <<>>
                           THEN "ErrRoleIsNotExist"
                           ELSE ""
           IN /\ call' = [call EXCEPT !.d = [pc |-> "done", err |-> err] @@ @]
              /\ store' = IF err = ""
                          THEN [store EXCEPT
                                   !.perms = Deleted(store.perms, me.project, me.permName)]
                          ELSE store
    /\ UNCHANGED <<rn, pol, req, pc, user, ra, projectName, permissions, reads,
                   response, chain, ctx>>

\* CreateRole or UpdateRole is called
RoleCall ==
    /\ call.w.pc = "idle"
    /\ \E r \in RoleRequests :
           call' = [call EXCEPT !.w = [pc |-> "project", project |-> P1] @@ r]
    /\ UNCHANGED <<rn, pol, filterVars>>

\* p.Store.Get(ctx, &project)
RoleGetProject ==
    /\ call.w.pc = "project"
    /\ \E fail \in BOOLEAN :
           call' = [call EXCEPT !.w =
                       IF ProjectMissing(store, call.w.project,
                                         IF fail THEN "project" ELSE "none")
                       THEN [pc |-> "done", err |-> "ErrProjectIsNotExist"] @@ @
                       ELSE [pc |-> "polices"] @@ @]
    /\ UNCHANGED <<rn, pol, filterVars>>

\* policies, err := p.listPermPolices(...) and the comparison of lengths
RoleListPolices ==
    /\ call.w.pc = "polices"
    /\ \E fail \in BOOLEAN :
           LET me == call.w
               policies == listPermPolices(store, me.project, me.perms, "perms", fail)
           IN call' = [call EXCEPT !.w =
                          IF \/ Len(me.perms) = 0
                             \/ policies.err
                             \/ Len(policies.perms) # Len(me.perms)
                          THEN [pc |-> "done", err |-> "ErrRolePermissionCheckFailure"] @@ @
                          ELSE [pc |-> IF me.op = "UpdateRole" THEN "role" ELSE "write"]
                                   @@ @]
    /\ UNCHANGED <<rn, pol, filterVars>>

\* UpdateRole: p.Store.Get(ctx, &role)
RoleGetRole ==
    /\ call.w.pc = "role"
    /\ \E fail \in BOOLEAN :
           call' = [call EXCEPT !.w =
                       IF fail THEN [pc |-> "done", err |-> "store error"] @@ @
                       ELSE IF Stored(store.roles, call.w.project, call.w.name) = <<>>
                       THEN [pc |-> "done", err |-> "ErrRoleIsNotExist"] @@ @
                       ELSE [pc |-> "write"] @@ @]
    /\ UNCHANGED <<rn, pol, filterVars>>

\* CreateRole: p.Store.Add(ctx, &role); UpdateRole: p.Store.Put(ctx, &role)
RoleWrite ==
    /\ call.w.pc = "write"
    /\ \E fail \in BOOLEAN :
           LET me == call.w
               err == IF fail THEN "store error"
                      ELSE IF /\ me.op = "CreateRole"
                              /\ Stored(store.roles, me.project, me.name) # <<>>
                           THEN "ErrRoleIsExist"
                           ELSE ""
           IN /\ call' = [call EXCEPT !.w = [pc |-> "done", err |-> err] @@ @]
              /\ store' = IF err = ""
                          THEN [store EXCEPT
                                   !.roles = Put(store.roles,
                                                 Role(me.name, me.project, me.perms))]
                          ELSE store
    /\ UNCHANGED <<rn, pol, req, pc, user, ra, projectName, permissions, reads,
                   response, chain, ctx>>

NextInterleave ==
    \/ DeleteCall
    \/ DeleteListRoles
    \/ DeleteStore
    \/ RoleCall
    \/ RoleGetProject
    \/ RoleListPolices
    \/ RoleGetRole
    \/ RoleWrite

SpecInterleave == InitInterleave /\ [][NextInterleave]_vars

-----------------------------------------------------------------------------
(* SpecDefaults: the seeding of the default permissions and roles, and   *)
(* the creation and update of permissions                               *)

\* "project:{projectName}" and "project:{projectName}/rest"
ProjectTemplate == <<"project", ":", "{", "projectName", "}">>
UnderProject(rest) == Slash(ProjectTemplate, rest)

Template(name, resources, actions, effect) ==
    [Name |-> name, Resources |-> resources, Actions |-> actions, Effect |-> effect]

defaultProjectPermissionTemplate ==
    << Template("project-view",
                << ProjectTemplate,
                   UnderProject(Seg("config", "*")),
                   UnderProject(Seg("provider", "*")),
                   UnderProject(Seg("role", "*")),
                   UnderProject(Seg("projectUser", "*")),
                   UnderProject(Seg("permission", "*")),
                   UnderProject(Seg("environment", "*")),
                   UnderProject(Slash(Seg("application", "*"), Star)),
                   UnderProject(Slash(Seg("pipeline", "*"), Star)) >>,
                <<"detail", "list">>, EffAllow),
       Template("app-management",
                <<UnderProject(Slash(Seg("application", "*"), Star))>>, <<"*">>, EffAllow),
       Template("env-management",
                <<UnderProject(Seg("environment", "*"))>>, <<"*">>, EffAllow),
       Template("role-management",
                << UnderProject(Seg("role", "*")), UnderProject(Seg("projectUser", "*")),
                   UnderProject(Seg("permission", "*")) >>, <<"*">>, EffAllow),
       Template("config-management",
                << UnderProject(Seg("config", "*")), UnderProject(Seg("provider", "*")) >>,
                <<"*">>, EffAllow),
       Template("pipeline-management",
                <<UnderProject(Slash(Seg("pipeline", "*"), Star))>>, <<"*">>, EffAllow) >>

defaultPlatformPermission ==
    << Template("disable-cloudshell", <<<<"cloudshell">>>>, <<"*">>, EffDeny),
       Template("cluster-management", <<Slash(Seg("cluster", "*"), Star)>>, <<"*">>,
                EffAllow),
       Template("project-management", <<Seg("project", "*")>>, <<"*">>, EffAllow),
       Template("project-list", <<Seg("project", "*")>>, <<"list">>, EffAllow),
       Template("addon-management", <<Seg("addon", "*"), Seg("addonRegistry", "*")>>,
                <<"*">>, EffAllow),
       Template("target-management",
                <<Seg("target", "*"), Slash(Seg("cluster", "*"), Seg("namespace", "*"))>>,
                <<"*">>, EffAllow),
       Template("user-management", <<Seg("user", "*")>>, <<"*">>, EffAllow),
       Template("role-management", <<Seg("role", "*"), Seg("permission", "*")>>, <<"*">>,
                EffAllow),
       Template("config-management", <<Slash(Seg("config", "*"), Star)>>, <<"*">>,
                EffAllow),
       Template("admin", <<Star>>, <<"*">>, EffAllow) >>

\* utils.EqualSlice: the same strings, whatever their order
EqualSlice(a, b) ==
    /\ Len(a) = Len(b)
    /\ \A x \in { a[i] : i \in 1..Len(a) } \cup { b[i] : i \in 1..Len(b) } :
           Cardinality({ i \in 1..Len(a) : a[i] = x })
               = Cardinality({ i \in 1..Len(b) : b[i] = x })

\* the resource of a template instantiated for the project, as a string
Formatted(resource, project) ==
    ResourceNameString(
        SetResourceWithName(resource,
            [k \in KeysOf(resource) |->
                 IF k = <<ResourceMaps["project"].pathName>> THEN project ELSE Empty]))

\* the permission SyncDefaultRoleAndUsersForProject builds from a template
FromTemplate(t, project) ==
    Perm(t.Name, project,
         [i \in 1..Len(t.Resources) |-> Formatted(t.Resources[i], project)],
         t.Actions, t.Effect)

\* the records added to, or replacing those of, the stored ones
RECURSIVE PutAll(_, _)
PutAll(records, batch) ==
    IF batch = <<>> THEN records ELSE PutAll(Put(records, Head(batch)), Tail(batch))

\* the project the defaults are synchronised for
TheProject == [Name |-> P1, Owner |-> "alice"]

StoreOfDefaults ==
    [ projects |-> <<[Name |-> P1]>>, perms |-> <<>>, roles |-> <<>>,
      projectUsers |-> <<>> ]

\* the permissions the templates yield for the project
ProjectDefaults ==
    [i \in 1..Len(defaultProjectPermissionTemplate) |->
         FromTemplate(defaultProjectPermissionTemplate[i], TheProject.Name)]

\* the platform permissions Init adds
PlatformDefaults ==
    [i \in 1..Len(defaultPlatformPermission) |->
         Perm(defaultPlatformPermission[i].Name, Empty,
              defaultPlatformPermission[i].Resources,
              defaultPlatformPermission[i].Actions,
              defaultPlatformPermission[i].Effect)]

\* effects a request can carry: none, a known one in lower case, and a word
\* that is neither Allow nor Deny
EffNone == <<"N", "o", "n", "e">>
Effdeny == <<"d", "e", "n", "y">>
RequestEffects == { Empty, Effdeny, EffNone }

CustomNames == {"custom"}

UpdatedNames == {"app-management", "custom"}

UpdateActions == { <<"*">>, <<"list">> }

\* the call returned; puts lists the names written by Store.Put
ReturnsPuts(op, project, name, fault, err, puts) ==
    call' = [op |-> op, project |-> project, name |-> name, fault |-> fault,
             err |-> err, puts |-> puts]

InitDefaults ==
    /\ store = StoreOfDefaults
    /\ call = [op |-> "none", project |-> Empty, name |-> "", fault |-> "none",
               err |-> "", puts |-> {}]
    /\ rn = Idle
    /\ pol = Idle
    /\ req = None
    /\ pc = "idle"
    /\ user = None
    /\ ra = None
    /\ projectName = Empty
    /\ permissions = <<>>
    /\ reads = <<>>
    /\ response = <<>>
    /\ chain = 0
    /\ ctx = None

\* rbacServiceImpl.Init: the platform defaults and the admin role are
\* added when no platform permission is counted (a failed count gives 0)
ServiceInit ==
    /\ \E fault \in {"none", "count", "write"} :
           LET count == IF fault = "count" THEN 0
                        ELSE Len(SelectSeq(store.perms, LAMBDA q : q.Project = Empty))
               batchPerms == PlatformDefaults
               exists == \/ \E i \in 1..Len(batchPerms) :
                                Stored(store.perms, Empty, batchPerms[i].Name) # <<>>
                         \/ Stored(store.roles, Empty, "admin") # <<>>
               err == IF count # 0 THEN ""
                      ELSE IF fault = "write" THEN "store error"
                      ELSE IF exists THEN "ErrRecordExist" ELSE ""
           IN /\ ReturnsPuts("Init", Empty, "", fault, err, {})
              /\ store' = IF count = 0 /\ err = ""
                          THEN [store EXCEPT
                                   !.perms = PutAll(store.perms, batchPerms),
                                   !.roles = Put(store.roles,
                                                 Role("admin", Empty, <<"admin">>))]
                          ELSE store
    /\ UNCHANGED <<rn, pol, req, pc, user, ra, projectName, permissions, reads,
                   response, chain, ctx>>

\* the templates whose stored permission the loop writes with Store.Put
RewrittenTemplates(stored) ==
    { i \in 1..Len(defaultProjectPermissionTemplate) :
        LET t == defaultProjectPermissionTemplate[i]
            perm == Stored(stored, TheProject.Name, t.Name)
        IN /\ perm # <<>>
           /\ \/ ~EqualSlice(perm[1].Resources, t.Resources)
              \/ EqualSlice(perm[1].Actions, t.Actions) }

SyncDefaultRoleAndUsersForProject ==
    /\ \E fault \in {"none", "list", "put", "write"} :
           LET project == TheProject
               listed == SelectSeq(store.perms, LAMBDA q : q.Project = project.Name)
               rewritten == RewrittenTemplates(listed)
               missing == { i \in 1..Len(defaultProjectPermissionTemplate) :
                              Stored(listed, project.Name,
                                     defaultProjectPermissionTemplate[i].Name) = <<>> }
               putPerms == ProjectDefaults
               puts == SelectSeq(putPerms,
                           LAMBDA q : \E i \in rewritten : putPerms[i] = q)
               adds == SelectSeq(putPerms,
                           LAMBDA q : \E i \in missing : putPerms[i] = q)
               newRoles ==
                   IF Len(listed) = 0
                   THEN << Role("app-developer", project.Name,
                                <<"project-view", "app-management", "env-management",
                                  "config-management", "pipeline-management">>),
                           Role("project-admin", project.Name,
                                <<"project-view", "app-management", "env-management",
                                  "pipeline-management", "config-management",
                                  "role-management">>),
                           Role("project-viewer", project.Name, <<"project-view">>) >>
                   ELSE <<>>
               newUsers ==
                   IF Len(listed) = 0 /\ project.Owner # ""
                   THEN <<[ProjectName |-> project.Name, Username |-> project.Owner,
                           UserRoles |-> <<"project-admin">>]>>
                   ELSE <<>>
               rolesExist == \E i \in 1..Len(newRoles) :
                                Stored(store.roles, project.Name, newRoles[i].Name) # <<>>
               err == IF fault = "list" THEN "store error"
                      ELSE IF fault = "put" /\ rewritten # {} THEN "store error"
                      ELSE IF fault = "write" THEN "store error"
                      ELSE IF rolesExist THEN "ErrRecordExist" ELSE ""
               putDone == fault # "list" /\ ~(fault = "put" /\ rewritten # {})
           IN /\ ReturnsPuts("SyncDefaultRoleAndUsersForProject", project.Name, "",
                             fault, err,
                             IF putDone
                             THEN { defaultProjectPermissionTemplate[i].Name :
                                      i \in rewritten }
                             ELSE {})
              /\ store' =
                    IF ~putDone THEN store
                    ELSE IF err # ""
                    THEN [store EXCEPT !.perms = PutAll(store.perms, puts)]
                    ELSE [store EXCEPT
                             !.perms = PutAll(PutAll(store.perms, puts), adds),
                             !.roles = PutAll(store.roles, newRoles),
                             !.projectUsers = store.projectUsers \o newUsers]
    /\ UNCHANGED <<rn, pol, req, pc, user, ra, projectName, permissions, reads,
                   response, chain, ctx>>

CreatePermissionWithEffect ==
    CreatePermissionOf({TheProject.Name}, CustomNames, {<<>>}, RequestEffects)

\* UpdatePermission: only a missing record ends it early; the request's
\* fields are stored as they come.  After a read that failed otherwise the
\* write of a record the store does not hold is the datastore's to accept
\* (upsert) or refuse.
UpdatePermission ==
    /\ \E project \in {TheProject.Name}, permissionName \in UpdatedNames,
          reqActions \in UpdateActions, reqEffect \in {Empty, EffAllow},
          fault \in {"none", "get", "write"} :
       \E upsert \in IF fault = "get" /\ Stored(store.perms, project, permissionName) = <<>>
                     THEN BOOLEAN ELSE {TRUE} :
           LET found == Stored(store.perms, project, permissionName)
               perm == Perm(permissionName, project, <<Star>>, reqActions, reqEffect)
               err == IF fault # "get" /\ found = <<>> THEN "ErrPermissionNotExist"
                      ELSE IF fault = "write" THEN "store error"
                      ELSE IF found = <<>> /\ ~upsert THEN "ErrRecordNotExist"
                      ELSE ""
           IN /\ ReturnsPuts("UpdatePermission", project, permissionName, fault, err,
                             IF err = "" THEN {permissionName} ELSE {})
              /\ store' = IF err = ""
                          THEN [store EXCEPT !.perms = Put(store.perms, perm)]
                          ELSE store
    /\ UNCHANGED <<rn, pol, req, pc, user, ra, projectName, permissions, reads,
                   response, chain, ctx>>

NextDefaults ==
    \/ ServiceInit
    \/ SyncDefaultRoleAndUsersForProject
    \/ CreatePermissionWithEffect
    \/ UpdatePermission

SpecDefaults == InitDefaults /\ [][NextDefaults]_vars

-----------------------------------------------------------------------------
(* SpecLock: registerResourceAction called by parallel goroutines, one   *)
(* step per statement of its body                                        *)

MaxGoroutines == 3

Goroutines == 1..MaxGoroutines

WorkflowOfApplication == <<"application", "/", "workflow">>
WorkflowOfProject == <<"project", "/", "application", "/", "workflow">>

\* the registrations a goroutine can make: two names of one path, a
\* top-level name, and a name that resolves to nothing
Registrations ==
    { [resource |-> WorkflowOfApplication, actions |-> <<"list">>],
      [resource |-> WorkflowOfApplication, actions |-> <<"detail">>],
      [resource |-> WorkflowOfProject, actions |-> <<"detail", "list">>],
      [resource |-> <<"role">>, actions |-> <<"list">>],
      [resource |-> <<"widget">>, actions |-> <<"list">>] }

\* checkResourcePath on the registered names
Resolution == [r \in { x.resource : x \in Registrations } |-> checkResourcePath(r)]

\* a goroutine that has not called CheckPerm
NotStarted ==
    [pc |-> "idle", resource |-> Empty, actions |-> <<>>, path |-> Empty, i |-> 0]

\* the statements between lock.Lock() and the deferred lock.Unlock()
Body == {"make", "resolve", "lookup", "merge", "store", "return", "panic"}

InitLock ==
    /\ call = [op |-> "registerResourceAction", lock |-> 0, resourceActions |-> None,
               g |-> [g \in Goroutines |-> NotStarted]]
    /\ rn = Idle
    /\ pol = Idle
    /\ FilterIdle

\* goroutine g is at pc and moves on with the fields of next
Step(g, pc0, next) ==
    /\ call.g[g].pc = pc0
    /\ call' = [call EXCEPT !.g[g] = next @@ call.g[g]]

\* CheckPerm(resource, actions...) calls registerResourceAction
GoCheckPerm(g) ==
    /\ \E x \in Registrations :
           Step(g, "idle", [pc |-> "lock", resource |-> x.resource,
                            actions |-> x.actions])
    /\ UNCHANGED <<rn, pol, filterVars>>

\* lock.Lock() entered whoever holds the mutex
Lock_NoMutex(g) ==
    /\ call.g[g].pc = "lock"
    /\ call' = [call EXCEPT !.lock = g, !.g[g].pc = "make"]
    /\ UNCHANGED <<rn, pol, filterVars>>

\* lock.Lock(): blocks while the mutex is held
Lock(g) ==
    /\ call.g[g].pc = "lock"
    /\ call.lock = 0
    /\ call' = [call EXCEPT !.lock = g, !.g[g].pc = "make"]
    /\ UNCHANGED <<rn, pol, filterVars>>

\* if resourceActions == nil { resourceActions = make(...) }
MakeMap(g) ==
    /\ call.g[g].pc = "make"
    /\ call' = [call EXCEPT
                   !.resourceActions = IF @ = None THEN NoRegistry ELSE @,
                   !.g[g].pc = "resolve"]
    /\ UNCHANGED <<rn, pol, filterVars>>

\* path, err := checkResourcePath(resource); panic on an error
Resolve(g) ==
    /\ LET got == Resolution[call.g[g].resource]
       IN Step(g, "resolve",
               IF got.err # "" THEN [pc |-> "panic"]
               ELSE [pc |-> "lookup", path |-> got.path])
    /\ UNCHANGED <<rn, pol, filterVars>>

\* if _, exist := resourceActions[resource]; exist
Lookup(g) ==
    /\ Step(g, "lookup",
            [pc |-> IF call.g[g].path \in DOMAIN call.resourceActions
                    THEN "merge" ELSE "store",
             i |-> 1])
    /\ UNCHANGED <<rn, pol, filterVars>>

\* one iteration of the loop over actions, or its end
Merge(g) ==
    /\ call.g[g].pc = "merge"
    /\ LET me == call.g[g]
           stored == IF me.path \in DOMAIN call.resourceActions
                     THEN call.resourceActions[me.path] ELSE <<>>
       IN IF me.i > Len(me.actions)
          THEN call' = [call EXCEPT !.g[g].pc = "return", !.g[g].i = 0]
          ELSE call' = [call EXCEPT
                           !.g[g].i = me.i + 1,
                           !.resourceActions =
                               IF StringsContain(stored, me.actions[me.i]) THEN @
                               ELSE (me.path :> Append(stored, me.actions[me.i])) @@ @]
    /\ UNCHANGED <<rn, pol, filterVars>>

\* resourceActions[resource] = actions
StoreActions(g) ==
    /\ call.g[g].pc = "store"
    /\ call' = [call EXCEPT
                   !.g[g].pc = "return", !.g[g].i = 0,
                   !.resourceActions = (call.g[g].path :> call.g[g].actions) @@ @]
    /\ UNCHANGED <<rn, pol, filterVars>>

\* the deferred lock.Unlock(), run on return and on panic
Unlock(g) ==
    /\ call.g[g].pc \in {"return", "panic"}
    /\ call' = [call EXCEPT
                   !.lock = 0,
                   !.g[g].pc = IF call.g[g].pc = "panic" THEN "panicked" ELSE "done"]
    /\ UNCHANGED <<rn, pol, filterVars>>

NextLock ==
    \E g \in Goroutines :
        \/ GoCheckPerm(g)
        \/ Lock(g)
        \/ MakeMap(g)
        \/ Resolve(g)
        \/ Lookup(g)
        \/ Merge(g)
        \/ StoreActions(g)
        \/ Unlock(g)

SpecLock == InitLock /\ [][NextLock]_vars

-----------------------------------------------------------------------------
(* SpecTemplate: one call SetResourceWithName(template, lookup) *)

\* resource names whose templates are instantiated
TemplateNames ==
    { <<"application">>, <<"component">>, <<"cluster">>, <<"namespace">>,
      <<"cloudshell">> }

Templates == { checkResourcePath(n).path : n \in TemplateNames }

\* what a lookup can return: nothing, a plain word, and strings holding
\* the separators and the braces of the template syntax
LookupValues ==
    { Empty, <<"v1">>, <<"v1", "/", "x", ":", "y">>, <<"a", ":", "b">>,
      <<"{", "appName", "}">> }

InitTemplate ==
    /\ \E t \in Templates :
           \E lookup \in [KeysOf(t) -> LookupValues] :
               call = [op |-> "SetResourceWithName", template |-> t,
                       lookup |-> lookup, pc |-> "call", out |-> <<>>]
    /\ rn = Idle
    /\ pol = Idle
    /\ FilterIdle

TemplateCall ==
    /\ call.pc = "call"
    /\ call' = [call EXCEPT !.pc = "done",
                            !.out = SetResourceWithName(call.template, call.lookup)]
    /\ UNCHANGED <<rn, pol, filterVars>>

NextTemplate == TemplateCall

SpecTemplate == InitTemplate /\ [][NextTemplate]_vars

-----------------------------------------------------------------------------
(* Spec: one request through a filter returned by CheckPerm *)

\* the registrations CheckPerm(resource, actions...) whose filters are run
Routes ==
    { [resource |-> <<"application">>, actions |-> <<"detail">>],
      [resource |-> <<"environment">>, actions |-> <<"delete">>],
      [resource |-> <<"project", "/", "role">>, actions |-> <<"list">>],
      [resource |-> <<"cloudshell">>, actions |-> <<"create">>] }

\* checkResourcePath(resource) of each registered resource name
RoutePaths == [r \in {route.resource : route \in Routes} |-> checkResourcePath(r)]

\* the identity the authentication layer left in the request context
CtxUsers ==
    { [ok |-> FALSE, name |-> ""] }
        \cup [ok : {TRUE}, name : {"admin", "alice", "bob", "carol", "dave", "ghost"}]

RequestSet ==
    [ ctxUser : CtxUsers,
      path : [projectName : {Empty, P1}, appName : {Empty, <<"app1">>},
              envName : {Empty, <<"env1">>, <<"env2">>}],
      query : [project : {Empty, P2}, projectName : {Empty, P3}],
      route : Routes ]

\* req.PathParameter(name): empty when the route has no such parameter
PathParameter(r, name) ==
    IF Len(name) = 1 /\ name[1] \in DOMAIN r.path THEN r.path[name[1]] ELSE Empty

\* getProjectName reading the query parameter project before the path
\* parameter projectName
getProjectName_QueryFirst(st, r, appFail, envFail) ==
    IF r.query.project # Empty
    THEN [value |-> r.query.project, reads |-> <<>>]
    ELSE IF r.path.projectName # Empty
    THEN [value |-> r.path.projectName, reads |-> <<>>]
    ELSE IF r.query.projectName # Empty
    THEN [value |-> r.query.projectName, reads |-> <<>>]
    ELSE LET appName ==
                 PathParameter(r, <<ResourceMaps["project"].subResources["application"].pathName>>)
             app == SelectSeq(st.apps, LAMBDA a : a.Name = appName)
             gotApp == GetResult(app, appFail)
             appReads == IF appName # Empty THEN <<Read("app", gotApp)>> ELSE <<>>
             envName ==
                 PathParameter(r, <<ResourceMaps["project"].subResources["environment"].pathName>>)
             env == SelectSeq(st.envs, LAMBDA e : e.Name = envName)
             gotEnv == GetResult(env, envFail)
         IN IF appName # Empty /\ gotApp = "ok"
            THEN [value |-> GetEntity(app).Project, reads |-> appReads]
            ELSE IF envName # Empty
                 THEN IF gotEnv = "ok"
                      THEN [value |-> GetEntity(env).Project,
                            reads |-> Append(appReads, Read("env", gotEnv))]
                      ELSE [value |-> Empty,
                            reads |-> Append(appReads, Read("env", gotEnv))]
                 ELSE [value |-> Empty, reads |-> appReads]

\* the closure getProjectName; appFail and envFail tell whether the store
\* fails on the application and environment reads.  [value, reads]
getProjectName(st, r, appFail, envFail) ==
    IF r.path.projectName # Empty
    THEN [value |-> r.path.projectName, reads |-> <<>>]
    ELSE IF r.query.project # Empty
    THEN [value |-> r.query.project, reads |-> <<>>]
    ELSE IF r.query.projectName # Empty
    THEN [value |-> r.query.projectName, reads |-> <<>>]
    ELSE LET appName ==
                 PathParameter(r, <<ResourceMaps["project"].subResources["application"].pathName>>)
             app == SelectSeq(st.apps, LAMBDA a : a.Name = appName)
             gotApp == GetResult(app, appFail)
             appReads == IF appName # Empty THEN <<Read("app", gotApp)>> ELSE <<>>
             envName ==
                 PathParameter(r, <<ResourceMaps["project"].subResources["environment"].pathName>>)
             env == SelectSeq(st.envs, LAMBDA e : e.Name = envName)
             gotEnv == GetResult(env, envFail)
         IN IF appName # Empty /\ gotApp = "ok"
            THEN [value |-> GetEntity(app).Project, reads |-> appReads]
            ELSE IF envName # Empty
                 THEN IF gotEnv = "ok"
                      THEN [value |-> GetEntity(env).Project,
                            reads |-> Append(appReads, Read("env", gotEnv))]
                      ELSE [value |-> Empty,
                            reads |-> Append(appReads, Read("env", gotEnv))]
                 ELSE [value |-> Empty, reads |-> appReads]

Init ==
    /\ rn = Idle
    /\ pol = Idle
    /\ call = Idle
    /\ store = TheStore
    /\ req \in RequestSet
    /\ pc = "auth"
    /\ user = None
    /\ ra = None
    /\ projectName = Empty
    /\ permissions = <<>>
    /\ reads = <<>>
    /\ response = <<>>
    /\ chain = 0
    /\ ctx = None

\* bcode.ReturnError followed by return
ReturnError(code) ==
    /\ response' = Append(response, code)
    /\ pc' = "done"

\* Authenticate going on with an empty user when the user cannot be loaded
Authenticate_IgnoresLoadError ==
    /\ pc = "auth"
    /\ \E fail \in BOOLEAN :
           IF ~req.ctxUser.ok
           THEN /\ ReturnError("Unauthorized")
                /\ UNCHANGED <<user, reads>>
           ELSE LET found == SelectSeq(store.users, LAMBDA u : u.Name = req.ctxUser.name)
                    got == GetResult(found, fail)
                IN /\ reads' = Append(reads, Read("user", got))
                   /\ user' = IF got = "ok" THEN GetEntity(found)
                              ELSE [Name |-> req.ctxUser.name, UserRoles |-> <<>>]
                   /\ IF RoutePaths[req.route.resource].err # ""
                      THEN ReturnError("Forbidden")
                      ELSE /\ pc' = "resource"
                           /\ UNCHANGED response
    /\ UNCHANGED <<rn, pol, call, store, req, ra, projectName, permissions, chain, ctx>>

\* the user from the context and from the store, then the resource path
Authenticate ==
    /\ pc = "auth"
    /\ \E fail \in BOOLEAN :
           IF ~req.ctxUser.ok
           THEN /\ ReturnError("Unauthorized")
                /\ UNCHANGED <<user, reads>>
           ELSE LET found == SelectSeq(store.users, LAMBDA u : u.Name = req.ctxUser.name)
                    got == GetResult(found, fail)
                IN /\ reads' = Append(reads, Read("user", got))
                   /\ IF got # "ok"
                      THEN /\ ReturnError("Unauthorized")
                           /\ UNCHANGED user
                      ELSE /\ user' = GetEntity(found)
                           /\ IF RoutePaths[req.route.resource].err # ""
                              THEN ReturnError("Forbidden")
                              ELSE /\ pc' = "resource"
                                   /\ UNCHANGED response
    /\ UNCHANGED <<rn, pol, call, store, req, ra, projectName, permissions, chain, ctx>>

\* ra.SetResourceWithName(path, ...) and ra.SetActions(actions)
SetResource ==
    /\ pc = "resource"
    /\ \E appFail \in BOOLEAN, envFail \in BOOLEAN :
           LET path == RoutePaths[req.route.resource].path
               keys == KeysOf(path)
               projectKey == <<ResourceMaps["project"].pathName>>
               gp == getProjectName(store, req, appFail, envFail)
               pathParameter ==
                   [name \in keys |->
                        IF name = projectKey THEN gp.value ELSE PathParameter(req, name)]
           IN /\ ra' = [resource |-> SetResourceWithName(path, pathParameter),
                        actions |-> req.route.actions]
              /\ reads' = IF projectKey \in keys THEN reads \o gp.reads ELSE reads
    /\ pc' = "project"
    /\ UNCHANGED <<rn, pol, call, store, req, user, projectName, permissions, response,
                   chain, ctx>>

\* projectName := getProjectName()
GetProject ==
    /\ pc = "project"
    /\ \E appFail \in BOOLEAN, envFail \in BOOLEAN :
           LET gp == getProjectName(store, req, appFail, envFail)
           IN /\ projectName' = gp.value
              /\ reads' = reads \o gp.reads
    /\ pc' = "perms"
    /\ UNCHANGED <<rn, pol, call, store, req, user, ra, permissions, response, chain, ctx>>

\* p.GetUserPermissions(ctx, user, projectName, true)
LoadPermissions ==
    /\ pc = "perms"
    /\ \E fails \in SUBSET PermReadKinds :
           LET got == GetUserPermissions(store, user, projectName, TRUE, fails)
           IN /\ reads' = reads \o got.reads
              /\ IF got.err
                 THEN /\ ReturnError("Forbidden")
                      /\ UNCHANGED permissions
                 ELSE /\ permissions' = got.perms
                      /\ pc' = "match"
                      /\ UNCHANGED response
    /\ UNCHANGED <<rn, pol, call, store, req, user, ra, projectName, chain, ctx>>

\* MatchStep without the return after the error response
MatchStep_NoReturn ==
    /\ pc = "match"
    /\ IF ~Match(ra, permissions)
       THEN response' = Append(response, "Forbidden")
       ELSE UNCHANGED response
    /\ pc' = "attach"
    /\ UNCHANGED <<rn, pol, call, store, req, user, ra, projectName, permissions, reads,
                   chain, ctx>>

\* if !ra.Match(permissions) { ReturnError(ErrForbidden); return }
MatchStep ==
    /\ pc = "match"
    /\ IF ~Match(ra, permissions)
       THEN ReturnError("Forbidden")
       ELSE /\ pc' = "attach"
            /\ UNCHANGED response
    /\ UNCHANGED <<rn, pol, call, store, req, user, ra, projectName, permissions, reads,
                   chain, ctx>>

\* SetUsernameAndProjectInRequestContext(req, userName, projectName)
SetUsernameAndProject ==
    /\ pc = "attach"
    /\ ctx' = [username |-> req.ctxUser.name, project |-> projectName]
    /\ pc' = "next"
    /\ UNCHANGED <<rn, pol, call, store, req, user, ra, projectName, permissions, reads,
                   response, chain>>

\* chain.ProcessFilter(req, res)
ProcessFilter ==
    /\ pc = "next"
    /\ chain' = chain + 1
    /\ pc' = "done"
    /\ UNCHANGED <<rn, pol, call, store, req, user, ra, projectName, permissions, reads,
                   response, ctx>>

Next ==
    \/ Authenticate
    \/ SetResource
    \/ GetProject
    \/ LoadPermissions
    \/ MatchStep
    \/ SetUsernameAndProject
    \/ ProcessFilter

Spec == Init /\ [][Next]_vars

-----------------------------------------------------------------------------
(* SpecRace: one request through the filter while other requests delete  *)
(* the application and create it again                                   *)

RaceRequests ==
    [ ctxUser : [ok : {TRUE}, name : {"admin", "alice"}],
      path : [projectName : {Empty}, appName : {<<"app1">>},
              envName : {Empty, <<"env2">>}],
      query : [project : {Empty, P2}, projectName : {Empty}],
      route : {[resource |-> <<"application">>, actions |-> <<"detail">>]} ]

InitRace ==
    /\ rn = Idle
    /\ pol = Idle
    /\ call = Idle
    /\ store = TheStore
    /\ req \in RaceRequests
    /\ pc = "auth"
    /\ user = None
    /\ ra = None
    /\ projectName = Empty
    /\ permissions = <<>>
    /\ reads = <<>>
    /\ response = <<>>
    /\ chain = 0
    /\ ctx = None

\* another request deletes the application
DeleteApplication ==
    /\ store.apps # <<>>
    /\ store' = [store EXCEPT !.apps = <<>>]
    /\ UNCHANGED <<rn, pol, call, req, pc, user, ra, projectName, permissions, reads,
                   response, chain, ctx>>

\* another request creates the application under one of the projects
CreateApplication ==
    /\ store.apps = <<>>
    /\ \E project \in {P1, P2} :
           store' = [store EXCEPT !.apps = <<[Name |-> <<"app1">>, Project |-> project]>>]
    /\ UNCHANGED <<rn, pol, call, req, pc, user, ra, projectName, permissions, reads,
                   response, chain, ctx>>

NextRace ==
    \/ Authenticate
    \/ SetResource
    \/ GetProject
    \/ LoadPermissions
    \/ MatchStep
    \/ SetUsernameAndProject
    \/ ProcessFilter
    \/ DeleteApplication
    \/ CreateApplication

SpecRace == InitRace /\ [][NextRace]_vars

-----------------------------------------------------------------------------
(* SpecDisabled: DisableUser and EnableUser calls, and one request       *)
(* through the filter                                                    *)

\* the stored users with the field Disabled, false at first
StoreOfUsers ==
    [TheStore EXCEPT
        !.users = [i \in 1..Len(TheStore.users) |->
                       [Disabled |-> FALSE] @@ TheStore.users[i]]]

\* the users the administrator disables and enables
SwitchedUsers == {"admin", "alice"}

DisabledRequests ==
    [ ctxUser : [ok : {TRUE}, name : SwitchedUsers \cup {"bob"}],
      path : [projectName : {Empty, P1}, appName : {<<"app1">>}, envName : {Empty}],
      query : [project : {Empty}, projectName : {Empty}],
      route : {[resource |-> <<"application">>, actions |-> <<"detail">>],
               [resource |-> <<"cloudshell">>, actions |-> <<"create">>]} ]

InitDisabled ==
    /\ rn = Idle
    /\ pol = Idle
    /\ call = [op |-> "none", name |-> "", err |-> ""]
    /\ store = StoreOfUsers
    /\ req \in DisabledRequests
    /\ pc = "auth"
    /\ user = None
    /\ ra = None
    /\ projectName = Empty
    /\ permissions = <<>>
    /\ reads = <<>>
    /\ response = <<>>
    /\ chain = 0
    /\ ctx = None

\* the stored record of the user, Disabled set to the value
WithDisabled(st, name, value) ==
    [st EXCEPT !.users = [i \in 1..Len(st.users) |->
                             IF st.users[i].Name = name
                             THEN [st.users[i] EXCEPT !.Disabled = value]
                             ELSE st.users[i]]]

\* DisableUser and EnableUser on the stored record of the user: an error
\* when the record already has the value, else Store.Put
SwitchUser(op, value) ==
    /\ \E name \in SwitchedUsers, fail \in BOOLEAN :
           LET found == SelectSeq(store.users, LAMBDA u : u.Name = name)[1]
               err == IF found.Disabled = value
                      THEN IF value THEN "ErrUserAlreadyDisabled"
                           ELSE "ErrUserAlreadyEnabled"
                      ELSE IF fail THEN "store error" ELSE ""
           IN /\ call' = [op |-> op, name |-> name, err |-> err]
              /\ store' = IF err = "" THEN WithDisabled(store, name, value) ELSE store
    /\ UNCHANGED <<rn, pol, req, pc, user, ra, projectName, permissions, reads,
                   response, chain, ctx>>

DisableUser == SwitchUser("DisableUser", TRUE)

EnableUser == SwitchUser("EnableUser", FALSE)

NextDisabled ==
    \/ Authenticate
    \/ SetResource
    \/ GetProject
    \/ LoadPermissions
    \/ MatchStep
    \/ SetUsernameAndProject
    \/ ProcessFilter
    \/ DisableUser
    \/ EnableUser

SpecDisabled == InitDisabled /\ [][NextDisabled]_vars

-----------------------------------------------------------------------------
(* SpecLogin: one call DetailLoginUserInfo(ctx), one step per call it    *)
(* makes                                                                 *)

\* what ProjectService.ListUserProjects can return
UserProjectLists == { <<>>, <<P1>> }

InitLogin ==
    /\ call \in [op : {"DetailLoginUserInfo"}, pc : {"identity"}, ctxUser : CtxUsers,
                  got : {"none"}, user : {None}, projects : {<<>>}, next : {1},
                  projectPermissions : {<<>>}, ret : {""}, calls : {<<>>}]
    /\ store = TheStore
    /\ rn = Idle
    /\ pol = Idle
    /\ req = None
    /\ pc = "idle"
    /\ user = None
    /\ ra = None
    /\ projectName = Empty
    /\ permissions = <<>>
    /\ reads = <<>>
    /\ response = <<>>
    /\ chain = 0
    /\ ctx = None

\* userName, ok := ctx.Value(&apisv1.CtxKeyUser).(string)
LoginIdentity ==
    /\ call.pc = "identity"
    /\ call' = IF ~call.ctxUser.ok
               THEN [call EXCEPT !.pc = "done", !.ret = "ErrUnauthorized"]
               ELSE [call EXCEPT !.pc = "user"]
    /\ UNCHANGED <<rn, pol, filterVars>>

\* user, err := u.GetUser(ctx, userName), then the test `if !ok`
LoginGetUser ==
    /\ call.pc = "user"
    /\ \E fail \in BOOLEAN :
           LET found == SelectSeq(store.users, LAMBDA u : u.Name = call.ctxUser.name)
               got == GetResult(found, fail)
               loaded == [call EXCEPT !.got = got,
                                      !.user = IF got = "ok" THEN GetEntity(found) ELSE None,
                                      !.calls = Append(@, "GetUser")]
           IN call' = IF ~call.ctxUser.ok
                      THEN [loaded EXCEPT !.pc = "done", !.ret = "ErrUnauthorized"]
                      ELSE [loaded EXCEPT !.pc = "projects"]
    /\ UNCHANGED <<rn, pol, filterVars>>

\* projects, err := u.ProjectService.ListUserProjects(ctx, userName)
LoginListProjects ==
    /\ call.pc = "projects"
    /\ \/ call' = [call EXCEPT !.pc = "done", !.ret = "list projects error",
                                !.calls = Append(@, "ListUserProjects")]
       \/ \E projects \in UserProjectLists :
             call' = [call EXCEPT !.pc = "projectPerms", !.projects = projects,
                                  !.calls = Append(@, "ListUserProjects")]
    /\ UNCHANGED <<rn, pol, filterVars>>

\* one iteration of the loop over the projects, or its end;
\* GetUserPermissions dereferences the user
LoginProjectPermissions ==
    /\ call.pc = "projectPerms"
    /\ IF call.next > Len(call.projects)
       THEN call' = [call EXCEPT !.pc = "platformPerms"]
       ELSE IF call.user = None
       THEN call' = [call EXCEPT !.pc = "panicked", !.ret = "nil pointer dereference",
                                 !.calls = Append(@, "GetUserPermissions")]
       ELSE \E fails \in SUBSET PermReadKinds :
              LET project == call.projects[call.next]
                  got == GetUserPermissions(store, call.user, project, FALSE, fails)
              IN call' = [call EXCEPT
                             !.next = @ + 1,
                             !.calls = Append(@, "GetUserPermissions"),
                             !.projectPermissions =
                                 IF got.err THEN @
                                 ELSE Append(@, [project |-> project,
                                                 perms |-> got.perms])]
    /\ UNCHANGED <<rn, pol, filterVars>>

\* perms, err := u.RbacService.GetUserPermissions(ctx, user, "", true), and
\* the response
LoginPlatformPermissions ==
    /\ call.pc = "platformPerms"
    /\ IF call.user = None
       THEN call' = [call EXCEPT !.pc = "panicked", !.ret = "nil pointer dereference",
                                 !.calls = Append(@, "GetUserPermissions")]
       ELSE \E fails \in SUBSET PermReadKinds :
              LET got == GetUserPermissions(store, call.user, Empty, TRUE, fails)
              IN call' = [call EXCEPT
                             !.pc = "done",
                             !.calls = Append(@, "GetUserPermissions"),
                             !.projectPermissions =
                                 Append(@, [project |-> Empty,
                                            perms |-> IF got.err THEN <<>>
                                                      ELSE got.perms])]
    /\ UNCHANGED <<rn, pol, filterVars>>

NextLogin ==
    \/ LoginIdentity
    \/ LoginGetUser
    \/ LoginListProjects
    \/ LoginProjectPermissions
    \/ LoginPlatformPermissions

SpecLogin == InitLogin /\ [][NextLogin]_vars

-----------------------------------------------------------------------------
(* SpecWorker: WorkflowRecordSync.Start, its ticker and its context      *)

\* ticks that are counted; the ticker goes on firing after them
MaxTicks == 4

\* t.C holds at most one tick; log lists how each sync ended; counted
\* tells that no tick has fired beyond those counted
InitWorker ==
    /\ call = [op |-> "Start", pc |-> "select", buffered |-> 0, fired |-> 0,
               dropped |-> 0, started |-> 0, cancelled |-> FALSE, log |-> <<>>,
               counted |-> TRUE]
    /\ rn = Idle
    /\ pol = Idle
    /\ FilterIdle

\* the ticker fires: the tick waits in t.C, or is dropped when one waits
Tick ==
    /\ call.pc # "returned"
    /\ call' = IF call.fired >= MaxTicks
               THEN [call EXCEPT !.counted = FALSE, !.buffered = 1]
               ELSE IF call.buffered = 0
               THEN [call EXCEPT !.fired = @ + 1, !.buffered = 1]
               ELSE [call EXCEPT !.fired = @ + 1, !.dropped = @ + 1]
    /\ UNCHANGED <<rn, pol, filterVars>>

\* the context given to Start is cancelled
Cancel ==
    /\ ~call.cancelled
    /\ call' = [call EXCEPT !.cancelled = TRUE]
    /\ UNCHANGED <<rn, pol, filterVars>>

\* case <-t.C: SyncWorkflowRecord(ctx) is called
WorkerTick ==
    /\ call.pc = "select"
    /\ call.buffered = 1
    /\ call' = [call EXCEPT !.pc = "sync", !.buffered = 0,
                            !.started = IF call.counted THEN @ + 1 ELSE @]
    /\ UNCHANGED <<rn, pol, filterVars>>

\* the sync returns and the loop ends when it returned an error
SyncReturn_StopOnError ==
    /\ call.pc = "sync"
    /\ \E err \in {"", "sync error"} :
           call' = [call EXCEPT !.pc = IF err = "" THEN "select" ELSE "returned",
                                !.log = IF call.counted THEN Append(@, err) ELSE @]
    /\ UNCHANGED <<rn, pol, filterVars>>

\* the sync returns; its error is logged and the loop goes on
SyncReturn ==
    /\ call.pc = "sync"
    /\ \E err \in {"", "sync error"} :
           call' = [call EXCEPT !.pc = "select",
                                !.log = IF call.counted THEN Append(@, err) ELSE @]
    /\ UNCHANGED <<rn, pol, filterVars>>

\* case <-ctx.Done(): return, with the deferred t.Stop()
WorkerDone ==
    /\ call.pc = "select"
    /\ call.cancelled
    /\ call' = [call EXCEPT !.pc = "returned"]
    /\ UNCHANGED <<rn, pol, filterVars>>

NextWorker ==
    \/ Tick
    \/ Cancel
    \/ WorkerTick
    \/ SyncReturn
    \/ WorkerDone

\* a sync call returns; select takes a case that is ready again and again
SpecWorker ==
    /\ InitWorker
    /\ [][NextWorker]_vars
    /\ WF_vars(SyncReturn)
    /\ SF_vars(WorkerDone)

-----------------------------------------------------------------------------
(* Claims on ResourceName.Match (SpecRN) *)

RNCase(p, t) == rn.pc = "done" /\ rn.pattern = p /\ rn.target = t

\* C6 as stated: pattern project:* matches target project:foo/application:bar,
\* and pattern project:foo/application:bar does not match target project:foo.
C6_AsStated ==
    /\ RNCase(ProjectStar, ProjectFooAppBar) => rn.out = TRUE
    /\ RNCase(ProjectFooAppBar, ProjectFoo) => rn.out = FALSE

\* C6 (amended): Match is not symmetric.  Pattern project:*/* matches target
\* project:foo/application:bar, while pattern project:* matches the
\* one-segment target project:foo only and not project:foo/application:bar;
\* pattern project:foo/application:bar matches neither target project:foo
\* nor target project:*/*.
C6_NotSymmetric ==
    /\ RNCase(ProjectStarStar, ProjectFooAppBar) => rn.out = TRUE
    /\ RNCase(ProjectStar, ProjectFoo) => rn.out = TRUE
    /\ RNCase(ProjectStar, ProjectFooAppBar) => rn.out = FALSE
    /\ RNCase(ProjectFooAppBar, ProjectFoo) => rn.out = FALSE
    /\ RNCase(ProjectFooAppBar, ProjectStarStar) => rn.out = FALSE
    /\ RNCase(ProjectFoo, ProjectStar) => rn.out = FALSE

C6_Witness == RNCase(ProjectStarStar, ProjectFooAppBar) /\ rn.out = TRUE

\* number of real segments of a chain: those before the first empty type
RealLen(c) ==
    CHOOSE k \in 0..Len(c) :
        /\ \A j \in 1..k : c[j].Type # Empty
        /\ k = Len(c) \/ c[k + 1].Type = Empty

\* position j of the pattern has a target segment of the same type and
\* an equal value, or the value `*` on the pattern side
SegAgrees(p, t, j) ==
    /\ j <= RealLen(t)
    /\ p[j].Type = t[j].Type
    /\ p[j].Value = t[j].Value \/ p[j].Value = Star

\* (a) a pattern segment of type `*` is reached before any mismatch
ReachesTypeStar(p, t) ==
    \E k \in 1..RealLen(p) :
        p[k].Type = Star /\ \A j \in 1..(k - 1) : SegAgrees(p, t, j)

\* (b) every real pattern segment agrees and the target has none left
AgreesThroughout(p, t) ==
    /\ \A j \in 1..RealLen(p) : SegAgrees(p, t, j)
    /\ RealLen(t) <= RealLen(p)

NoTypeStarUpTo(p, n) == \A j \in 1..n : j <= RealLen(p) => p[j].Type # Star

\* C7: Match(pattern, target) is true exactly when (a) or (b).  So a value
\* `*` accepts any value at its position, a type `*` accepts the remaining
\* target suffix (an exhausted target too), a target that ends before a
\* pattern with no type `*` up to there does not match, and a pattern that
\* is a strict prefix of the target does not match.
C7_MatchCharacterised ==
    rn.pc = "done" =>
        LET p == ParseResourceName(rn.pattern)
            t == ParseResourceName(rn.target)
        IN /\ rn.out = (ReachesTypeStar(p, t) \/ AgreesThroughout(p, t))
           /\ ReachesTypeStar(p, t) => rn.out = TRUE
           /\ (RealLen(t) < RealLen(p) /\ NoTypeStarUpTo(p, RealLen(t) + 1))
                  => rn.out = FALSE
           /\ (RealLen(p) < RealLen(t) /\ NoTypeStarUpTo(p, RealLen(p)))
                  => rn.out = FALSE

\* a type `*` in second position accepts a target that is already exhausted
C7_Witness ==
    /\ RNCase(Slash(Seg("project", "*"), Star), Seg("project", "p1"))
    /\ rn.out = TRUE

-----------------------------------------------------------------------------
(* Claims on RequestResourceAction.Match (SpecPolicy) *)

ToSet(seq) == { seq[i] : i \in 1..Len(seq) }

\* a policy's action set holds every requested action, or the literal `*`
ActionTestPasses(policy, actions) ==
    \/ ToSet(actions) \subseteq ToSet(policy.Actions)
    \/ "*" \in ToSet(policy.Actions)

PatternCovers(pattern, resource) ==
    LET p == ParseResourceName(pattern)
        t == ParseResourceName(resource)
    IN ReachesTypeStar(p, t) \/ AgreesThroughout(p, t)

ResourceTestPasses(policy, resource) ==
    \E i \in 1..Len(policy.Resources) : PatternCovers(policy.Resources[i], resource)

\* a policy matches the request: its actions and one of its patterns do
PolicyCovers(policy) ==
    ActionTestPasses(policy, pol.actions) /\ ResourceTestPasses(policy, pol.resource)

IsDeny(effect) == [i \in 1..Len(effect) |-> ToLower(effect[i])] = deny

DenyClusterAll == [Resources |-> <<ClusterStar>>, Actions |-> <<"*">>, Effect |-> EffDeny]
AllowAll == [Resources |-> <<Star>>, Actions |-> <<"*">>, Effect |-> EffAllow]

\* C1: when a policy of effect Deny (in any letter case) matches the
\* request, Match returns false, whatever Allow policies match too and
\* whatever the order of the list; Deny on cluster:* with Allow on * rejects
\* a request on cluster:c1.
C1_DenyOverridesAllow ==
    pol.pc = "done" =>
        /\ (\E i \in 1..Len(pol.policies) :
                IsDeny(pol.policies[i].Effect) /\ PolicyCovers(pol.policies[i]))
               => pol.out = FALSE
        /\ ( /\ pol.resource = ClusterC1
             /\ pol.policies \in { <<DenyClusterAll, AllowAll>>, <<AllowAll, DenyClusterAll>> } )
               => pol.out = FALSE

\* the Allow policy comes first and matches, the Deny policy after it wins
C1_Witness ==
    /\ pol.pc = "done"
    /\ pol.policies = <<AllowAll, DenyClusterAll>>
    /\ pol.resource = ClusterC1
    /\ pol.matched = <<TRUE, TRUE>>
    /\ pol.out = FALSE

\* C2: when no policy of the list matches the request (the empty list
\* included), Match returns false.
C2_FailClosed ==
    pol.pc = "done" =>
        ( (\A i \in 1..Len(pol.policies) : ~PolicyCovers(pol.policies[i]))
              => pol.out = FALSE )

\* Allow policies are present, none matches
C2_Witness ==
    /\ pol.pc = "done"
    /\ Len(pol.policies) = MaxPolicies
    /\ \A i \in 1..Len(pol.policies) :
           pol.policies[i].Effect = EffAllow /\ ~PolicyCovers(pol.policies[i])
    /\ pol.out = FALSE

AllowP1AppStar == [Resources |-> <<P1AppStar>>, Actions |-> <<"*">>, Effect |-> EffAllow]
AllowP1AppStarStar ==
    [Resources |-> <<P1AppStarStar>>, Actions |-> <<"*">>, Effect |-> EffAllow]

C5_Request == pol.resource = P1App1Comp1 /\ pol.actions = <<"detail">>

\* C5 as stated: the single Allow policy on project:p1/application:* with
\* actions * permits detail on project:p1/application:app1/component:comp1.
C5_AsStated ==
    (pol.pc = "done" /\ pol.policies = <<AllowP1AppStar>> /\ C5_Request)
        => pol.out = TRUE

\* C5 (amended): the single Allow policy on project:p1/application:*/* with
\* actions * permits detail on project:p1/application:app1/component:comp1,
\* the segment of type * after the application segment absorbing the
\* remaining chain; the policy on project:p1/application:* rejects it, its
\* value * standing for the application name only.
C5_PermitByTypeWildcard ==
    /\ (pol.pc = "done" /\ pol.policies = <<AllowP1AppStarStar>> /\ C5_Request)
           => pol.out = TRUE
    /\ (pol.pc = "done" /\ pol.policies = <<AllowP1AppStar>> /\ C5_Request)
           => pol.out = FALSE

C5_Witness ==
    /\ pol.pc = "done"
    /\ pol.policies = <<AllowP1AppStarStar>>
    /\ C5_Request
    /\ pol.out = TRUE

\* C8: a policy passes the action test exactly when its actions hold every
\* requested action or the literal `*`: for a policy one of whose patterns
\* matches, match gives the action test.  {list, detail} passes {list} and
\* not {list, delete}; {*} passes every request, the empty one too; one
\* action other than `*` passes no request of two different actions.
C8_ActionSuperset ==
    pol.pc = "done" =>
        \A i \in 1..Len(pol.policies) :
            LET policy == pol.policies[i]
            IN /\ pol.matched[i] =
                      (ActionTestPasses(policy, pol.actions)
                           /\ ResourceTestPasses(policy, pol.resource))
               /\ ResourceTestPasses(policy, pol.resource) =>
                      /\ (policy.Actions = <<"list", "detail">> /\ pol.actions = <<"list">>)
                             => pol.matched[i]
                      /\ (policy.Actions = <<"list", "detail">>
                              /\ pol.actions = <<"list", "delete">>)
                             => ~pol.matched[i]
                      /\ policy.Actions = <<"*">> => pol.matched[i]
                      /\ (Len(policy.Actions) = 1 /\ policy.Actions # <<"*">>
                              /\ Cardinality(ToSet(pol.actions)) > 1)
                             => ~pol.matched[i]

\* {list, detail} on a matching pattern is asked for {list, delete}
C8_Witness ==
    /\ pol.pc = "done"
    /\ pol.actions = <<"list", "delete">>
    /\ \E i \in 1..Len(pol.policies) :
           /\ pol.policies[i].Actions = <<"list", "detail">>
           /\ pol.policies[i].Resources = <<Star>>
           /\ ~pol.matched[i]

-----------------------------------------------------------------------------
(* Claims on the CheckPerm filter (Spec) *)

Loaded == pc \in {"match", "attach", "next", "done"} /\ permissions # <<>>

\* the roles named by the user's membership record of a project
MembershipRoles(project) ==
    LET mine == SelectSeq(store.projectUsers,
                    LAMBDA m : m.ProjectName = project /\ m.Username = user.Name)
    IN IF mine = <<>> THEN {} ELSE ToSet(mine[1].UserRoles)

\* a project role the user holds in the project names the permission
NamedByHeldProjectRole(q) ==
    \E i \in 1..Len(store.roles) :
        /\ store.roles[i].Project = q.Project
        /\ store.roles[i].Name \in MembershipRoles(q.Project)
        /\ q.Name \in ToSet(store.roles[i].Permissions)

\* C3: every project-scope permission GetUserPermissions returns is named
\* by a project role the user holds in that project; a name that only a
\* platform role of the user contributes selects no project permission.
C3_ProjectPermsFromProjectRoles ==
    Loaded =>
        \A i \in 1..Len(permissions) :
            permissions[i].Project # Empty => NamedByHeldProjectRole(permissions[i])

ContextReadKinds ==
    {"app", "env", "projectUser", "platformRoles", "platformPerms",
     "projectRoles", "projectPerms"}

\* C4: when a store read made for the project context, the membership, the
\* roles or the permissions fails, the request ends in Forbidden and the
\* next handler is not invoked.
C4_StorageFailureForbids ==
    ( /\ pc = "done"
      /\ \E i \in 1..Len(reads) :
             reads[i].result = "fail" /\ reads[i].kind \in ContextReadKinds )
        => (response = <<"Forbidden">> /\ chain = 0)

C9_Gate ==
    /\ Len(response) + chain <= 1
    /\ pc = "done" => Len(response) + chain = 1
    /\ chain = 1 =>
           /\ response = <<>>
           /\ ctx = [username |-> req.ctxUser.name, project |-> projectName]
    /\ Len(response) = 1 =>
           /\ response[1] \in {"Unauthorized", "Forbidden"}
           /\ pc = "done"
           /\ ctx = None

\* the order of the positions in the filter body
Position(p) ==
    CASE p = "auth" -> 1
      [] p = "resource" -> 2
      [] p = "project" -> 3
      [] p = "perms" -> 4
      [] p = "match" -> 5
      [] p = "attach" -> 6
      [] p = "next" -> 7
      [] p = "done" -> 8

\* C9: a request ends with the next handler invoked once (Permit) or one
\* error response written (Reject), never both; every step moves the
\* filter forward, so it ends; the next handler is invoked only after
\* username and project were attached to the context; on Reject the
\* response is Unauthorized or Forbidden and the context holds neither
\* username nor project.
C9_HandlerGated ==
    /\ []C9_Gate
    /\ [][ /\ Position(pc') > Position(pc)
           /\ chain' # chain => (ctx # None /\ ctx' = ctx /\ response = <<>>) ]_vars

C9_Witness == pc = "done" /\ chain = 1 /\ ctx # None /\ req.ctxUser.name = "bob"

C9_WitnessReject ==
    pc = "done" /\ response = <<"Forbidden">> /\ permissions # <<>> /\ ctx = None

Unidentified ==
    \/ ~req.ctxUser.ok
    \/ reads # <<>> /\ reads[1].kind = "user" /\ reads[1].result # "ok"

\* C10: a request without user identity, or whose user cannot be loaded,
\* ends in Unauthorized right after the user lookup: no other store read
\* is made, no resource is built, no policy is loaded or evaluated, and the
\* next handler is not invoked.
C10_UnauthorizedFirst ==
    (pc # "auth" /\ Unidentified) =>
        /\ pc = "done"
        /\ response = <<"Unauthorized">>
        /\ chain = 0
        /\ ctx = None
        /\ Len(reads) <= 1
        /\ ra = None
        /\ permissions = <<>>

\* the store fails on the read of an existing user
C10_Witness ==
    /\ pc = "done"
    /\ req.ctxUser = [ok |-> TRUE, name |-> "admin"]
    /\ reads = <<Read("user", "fail")>>
    /\ response = <<"Unauthorized">>

-----------------------------------------------------------------------------
(* Claims on the project context (Spec) *)

\* projectName holds the result of the second getProjectName call
Resolved == pc \in {"perms", "match", "attach", "next"}

\* the first non-empty of the three explicit parameters, in their order
ExplicitProject ==
    IF req.path.projectName # Empty THEN req.path.projectName
    ELSE IF req.query.project # Empty THEN req.query.project
    ELSE req.query.projectName

\* how the latest store read of the kind ended, "none" without such a read
LastRead(kind) ==
    LET made == { i \in 1..Len(reads) : reads[i].kind = kind }
    IN IF made = {} THEN "none"
       ELSE reads[CHOOSE i \in made : \A j \in made : j <= i].result

\* the project recorded for the named application or environment
RecordedProject(records, name) ==
    LET hit == SelectSeq(records, LAMBDA e : e.Name = name)
    IN IF hit = <<>> THEN Empty ELSE hit[1].Project

\* C11: the project context is the path parameter projectName, else the
\* query parameter project, else the query parameter projectName, else the
\* project of the application named by appName when it can be read, else
\* the project of the environment named by envName when it can be read,
\* else empty; no application or environment is read when an explicit
\* parameter is given, and no environment once the application was read.
C11_ProjectPriority ==
    Resolved =>
        IF ExplicitProject # Empty
        THEN /\ projectName = ExplicitProject
             /\ LastRead("app") = "none"
             /\ LastRead("env") = "none"
        ELSE IF req.path.appName # Empty /\ LastRead("app") = "ok"
        THEN /\ projectName = RecordedProject(store.apps, req.path.appName)
             /\ pc = "perms" => reads[Len(reads)].kind = "app"
        ELSE IF req.path.envName # Empty /\ LastRead("env") = "ok"
        THEN projectName = RecordedProject(store.envs, req.path.envName)
        ELSE projectName = Empty

\* the application cannot be read and the environment gives the project
C11_Witness ==
    /\ pc = "perms"
    /\ ExplicitProject = Empty
    /\ req.path.appName = <<"app1">>
    /\ LastRead("app") = "fail"
    /\ req.path.envName = <<"env2">>
    /\ LastRead("env") = "ok"
    /\ projectName = P2

-----------------------------------------------------------------------------
(* Claims on GetUserPermissions (SpecPerms) *)

\* a Deny policy naming the resource cloudshell, or every resource, and
\* every action of the call
DenyOnCloudshell(q) ==
    /\ EqualFold(q.Effect, EffDeny)
    /\ \E i \in 1..Len(q.Resources) :
           q.Resources[i] \in {<<"cloudshell">>, Seg("cloudshell", "*"), Star}
    /\ \/ "*" \in ToSet(q.Actions)
       \/ ToSet(call.actions) \subseteq ToSet(q.Actions)

\* C12: GetUserPermissions returning without error returns a list holding
\* the Allow permission on cloudshell with actions `*`, for every user,
\* project and withPlatform flag; a request on cloudshell is then permitted
\* when the list holds no Deny policy on cloudshell, and rejected for the
\* user whose platform role names disable-cloudshell.
C12_CloudshellGranted ==
    (call.pc \in {"match", "done"} /\ ~call.err) =>
        /\ \E i \in 1..Len(call.perms) :
               /\ call.perms[i].Resources = <<<<"cloudshell">>>>
               /\ call.perms[i].Actions = <<"*">>
               /\ call.perms[i].Effect = EffAllow
        /\ call.pc = "done" =>
               /\ (\A i \in 1..Len(call.perms) : ~DenyOnCloudshell(call.perms[i]))
                      => call.permitted
               /\ (call.user.Name = "dave" /\ call.withPlatform) => ~call.permitted

\* a user without any role, platform scope only
C12_Witness ==
    /\ call.pc = "done"
    /\ call.user.UserRoles = <<>>
    /\ call.project = Empty
    /\ call.actions = <<"create", "delete">>
    /\ Len(call.perms) = 1
    /\ call.permitted

-----------------------------------------------------------------------------
(* Claims on SetResourceWithName (SpecTemplate) *)

\* the value the claim gives a template token: looked up for `type:{name}`,
\* `*` for an empty lookup, the token's own value otherwise
ExpectedValue(tok, lookup) ==
    IF Len(tok) = 5 /\ tok[3] = "{"
    THEN IF lookup[<<tok[4]>>] = Empty THEN Star ELSE lookup[<<tok[4]>>]
    ELSE SubSeq(tok, 3, Len(tok))

\* one segment per template segment, same types, values substituted
ExpectedChain(template, lookup) ==
    LET toks == Split(template, "/")
    IN [i \in 1..Len(toks) |->
            [Type |-> <<toks[i][1]>>, Value |-> ExpectedValue(toks[i], lookup)]]
       \o <<Sentinel>>

HasPlaceholder(c) ==
    \E i \in 1..Len(c) :
        \/ \E j \in 1..Len(c[i].Value) : c[i].Value[j] \in {"{", "}"}
        \/ \E j \in 1..Len(c[i].Type) : c[i].Type[j] \in {"{", "}"}

\* C13: SetResourceWithName gives the chain of the template with each
\* placeholder replaced by the looked-up value, or `*` for an empty one:
\* one segment per template segment, in order, with the same types, and
\* no placeholder left, whatever the lookup returns.
C13_Instantiated ==
    call.pc = "done" =>
        /\ Len(call.out) = Len(Split(call.template, "/")) + 1
        /\ call.out = ExpectedChain(call.template, call.lookup)
        /\ ~HasPlaceholder(call.out)

-----------------------------------------------------------------------------
(* Claims on checkResourcePath (SpecPath) *)

\* every path of the schema tree, outer to inner, as [type, pathName] nodes
RECURSIVE SchemaPathsOf(_)
SchemaPathsOf(sources) ==
    UNION { { <<[type |-> k, pathName |-> sources[k].pathName]>> }
              \cup { <<[type |-> k, pathName |-> sources[k].pathName]>> \o sub :
                        sub \in SchemaPathsOf(sources[k].subResources) }
            : k \in DOMAIN sources }

SchemaPaths == SchemaPathsOf(ResourceMaps)

\* the types a resource name lists
NameParts(resource) ==
    LET parts == Split(resource, "/")
    IN [i \in 1..Len(parts) |-> IF Len(parts[i]) = 1 THEN parts[i][1] ELSE ""]

\* the schema paths whose last types are those of the name, in its order
Identified(resource) ==
    LET parts == NameParts(resource)
    IN { P \in SchemaPaths :
           /\ Len(P) >= Len(parts)
           /\ \A i \in 1..Len(parts) :
                  P[Len(P) - Len(parts) + i].type = parts[i] }

\* type:{param} or type:* for each node, joined by "/"
RECURSIVE Rendered(_)
Rendered(P) ==
    LET node == IF P[1].pathName # ""
                THEN <<P[1].type, ":", "{", P[1].pathName, "}">>
                ELSE <<P[1].type, ":", "*">>
    IN IF Len(P) = 1 THEN node ELSE node \o <<"/">> \o Rendered(Tail(P))

TopLevel(resource) == Len(resource) = 1 /\ resource[1] \in DOMAIN ResourceMaps

Returned == call.pc \in {"done", "inst"}

ComponentTemplate ==
    << "project", ":", "{", "projectName", "}", "/",
       "application", ":", "{", "appName", "}", "/",
       "component", ":", "{", "compName", "}" >>

ComponentResource ==
    <<"project", ":", "p1", "/", "application", ":", "a1", "/", "component", ":", "c1">>

\* C14: a resource name that is no top-level key and identifies exactly one
\* schema path resolves without error to the template of that path cut at
\* the named type, in whatever order the index is iterated; component
\* resolves to project:{projectName}/application:{appName}/component:{compName},
\* which p1, a1, c1 instantiate to project:p1/application:a1/component:c1.
C14_NestedResolution ==
    /\ ( /\ Returned
         /\ ~TopLevel(call.resource)
         /\ Cardinality(Identified(call.resource)) = 1 )
           => /\ call.out.err = ""
              /\ \A P \in Identified(call.resource) : call.out.path = Rendered(P)
    /\ (Returned /\ call.resource = <<"component">>)
           => call.out = [path |-> ComponentTemplate, err |-> ""]
    /\ (call.pc = "inst" /\ call.resource = <<"component">>)
           => ResourceNameString(call.inst) = ComponentResource

C14_Witness ==
    /\ call.pc = "inst"
    /\ call.resource = <<"component">>
    /\ call.out.path = ComponentTemplate
    /\ ResourceNameString(call.inst) = ComponentResource

\* C15: a top-level key of the schema resolves without error to
\* `name:{param}`, or `name:*` when it has no path parameter, also when a
\* type of the same name is nested elsewhere in the schema.
C15_TopLevelResolution ==
    (Returned /\ TopLevel(call.resource)) =>
        /\ call.out.err = ""
        /\ call.out.path =
               IF ResourceMaps[call.resource[1]].pathName # ""
               THEN <<call.resource[1], ":", "{",
                      ResourceMaps[call.resource[1]].pathName, "}">>
               ELSE <<call.resource[1], ":", "*">>

\* role is a top-level key and a type nested under project
C15_Witness ==
    /\ Returned
    /\ call.resource = <<"role">>
    /\ Cardinality(Identified(call.resource)) = 2
    /\ call.out = [path |-> <<"role", ":", "*">>, err |-> ""]

\* C16: a name that is no top-level key and identifies two or more schema
\* paths gets the "not unique" error in every order of iteration; a name
\* identifying one path, though several index entries match it, does not.
C16_AmbiguousRefused ==
    (Returned /\ ~TopLevel(call.resource)) =>
        /\ Cardinality(Identified(call.resource)) >= 2 => call.out.err = "not unique"
        /\ Cardinality(Identified(call.resource)) = 1 => call.out.err # "not unique"
        /\ call.resource = <<"component">> => call.out.err = ""

\* workflow, after the entry under project came between the two entries
\* under project/application
C16_Witness ==
    /\ Returned
    /\ call.resource = <<"workflow">>
    /\ call.exist = 3
    /\ call.out.err = "not unique"

\* C17: a name that is no top-level key and identifies no schema path,
\* its type being declared nowhere or not nested that way, gets the
\* "does not exist" error.
C17_UnknownRefused ==
    (Returned /\ ~TopLevel(call.resource) /\ Identified(call.resource) = {}) =>
        call.out.err = "no resource"

C17_Witness ==
    /\ Returned
    /\ call.resource = <<"project", "/", "trait">>
    /\ call.out.err = "no resource"

-----------------------------------------------------------------------------
(* Claims on registration (SpecReg) *)

Resolvable(resource) ==
    TopLevel(resource) \/ Cardinality(Identified(resource)) = 1

\* C18: CheckPerm with an unknown or ambiguous resource name panics, adds
\* no entry to the registry and returns no filter; with any other name it
\* returns a filter, and the resolution repeated in each request through a
\* returned filter succeeds with the template found at registration, so no
\* request gets Forbidden for a resolution error.
C18_ResolutionErrorsAtRegistration ==
    /\ call.attempt # None =>
           IF Resolvable(call.attempt.resource)
           THEN /\ call.pc = "run"
                /\ \E f \in call.filters :
                       /\ f.resource = call.attempt.resource
                       /\ f.actions = call.attempt.actions
                       /\ f.path \in DOMAIN call.resourceActions
           ELSE /\ call.pc = "panicked"
                /\ call.resourceActions = call.before.resourceActions
                /\ call.filters = call.before.filters
    /\ \A f \in call.filters :
           /\ Resolvable(f.resource)
           /\ f.path \in DOMAIN call.resourceActions
           /\ SliceIncludeSlice(call.resourceActions[f.path], f.actions)
    /\ call.served # None =>
           /\ call.served.err = ""
           /\ call.served.path = call.served.filter.path
           /\ call.served.response = <<>>

\* a second registration panics on the ambiguous name and leaves the
\* registry with the entry of the first
C18_Witness ==
    /\ call.pc = "panicked"
    /\ call.attempt.resource = <<"workflow">>
    /\ call.served # None
    /\ call.served.filter.resource = <<"application", "/", "workflow">>
    /\ DOMAIN call.resourceActions =
           { << "project", ":", "{", "projectName", "}", "/",
                "application", ":", "{", "appName", "}", "/",
                "workflow", ":", "{", "workflowName", "}" >> }

-----------------------------------------------------------------------------
(* Claims on ParseResourceName and String (SpecRoundTrip) *)

\* the (type, value) pairs of the nodes before the first of empty type
BeforeSentinel(c) ==
    LET stops == { i \in 1..Len(c) : c[i].Type = Empty }
        n == IF stops = {} THEN Len(c)
             ELSE (CHOOSE i \in stops : \A j \in stops : i <= j) - 1
    IN [i \in 1..n |-> <<c[i].Type, c[i].Value>>]

\* C19: parsing the String() of a parsed chain gives the same ordered
\* (type, value) pairs, the segments before the sentinel compared.
C19_RoundTrip ==
    call.pc = "done" => BeforeSentinel(call.back) = BeforeSentinel(call.c)

\* a chain cut by a token of three parts, its value kept
C19_Witness ==
    /\ call.pc = "done"
    /\ call.s = Slash(Seg("project", "p1"), Malformed)
    /\ call.str = Seg("project", "p1")
    /\ Len(call.c) = 3
    /\ Len(call.back) = 2
    /\ BeforeSentinel(call.back) = <<<<<<"project">>, <<"p1">>>>>>

-----------------------------------------------------------------------------
(* Claims on the role and permission operations (SpecStore) *)

\* the scope of the record holds a permission of that name
PermissionExists(st, project, name) ==
    \E i \in 1..Len(st.perms) :
        st.perms[i].Project = project /\ st.perms[i].Name = name

RoleIntegrity ==
    \A i \in 1..Len(store.roles) :
        \A j \in 1..Len(store.roles[i].Permissions) :
            PermissionExists(store, store.roles[i].Project,
                             store.roles[i].Permissions[j])

\* the role request of the call just made names a permission its scope
\* does not hold, or none
BadPermissionList ==
    /\ call'.op \in {"CreateRole", "UpdateRole"}
    /\ \/ call'.permissions = <<>>
       \/ \E j \in 1..Len(call'.permissions) :
              ~PermissionExists(store, call'.project, call'.permissions[j])

\* the project of the call just made was read
ProjectRead ==
    \/ call'.project = Empty
    \/ /\ call'.fault # "project"
       /\ \E i \in 1..Len(store.projects) : store.projects[i].Name = call'.project

\* the permission the call just made is about is named by a role of its scope
PermissionUsed ==
    /\ call'.op = "DeletePermission"
    /\ \E i \in 1..Len(store.roles) :
           /\ store.roles[i].Project = call'.project
           /\ call'.name \in ToSet(store.roles[i].Permissions)

\* C20 as stated: every name of every stored role names a permission of
\* the role's scope; CreateRole and UpdateRole with an empty list or a
\* name missing in the scope give the permission-check error and store
\* nothing; DeletePermission of a permission a role of the scope names
\* gives ErrPermissionIsUsed and deletes nothing.
C20_AsStated ==
    /\ []RoleIntegrity
    /\ [][ /\ BadPermissionList =>
                  (call'.err = "ErrRolePermissionCheckFailure" /\ store' = store)
           /\ PermissionUsed =>
                  (call'.err = "ErrPermissionIsUsed" /\ store' = store) ]_vars

\* C20: as stated, the permission-check error being given for the
\* platform scope and for a project that could be read; for a project
\* that could not, the error is ErrProjectIsNotExist, nothing stored.
C20_RoleIntegrity ==
    /\ []RoleIntegrity
    /\ [][ /\ BadPermissionList =>
                  /\ store' = store
                  /\ call'.err = IF ProjectRead THEN "ErrRolePermissionCheckFailure"
                                 ELSE "ErrProjectIsNotExist"
           /\ PermissionUsed =>
                  (call'.err = "ErrPermissionIsUsed" /\ store' = store) ]_vars

\* the project role is refused a permission that only the platform holds,
\* while a role of each scope is stored
C20_Witness ==
    /\ call.op = "CreateRole"
    /\ call.project = P1
    /\ call.permissions = <<"a", "b">>
    /\ call.err = "ErrRolePermissionCheckFailure"
    /\ PermissionExists(store, Empty, "b")
    /\ ~PermissionExists(store, P1, "b")
    /\ Len(store.roles) = 2

-----------------------------------------------------------------------------
(* Claims on the seeding, creation and update of permissions (SpecDefaults) *)

KnownEffect(effect) == EqualFold(effect, EffAllow) \/ EqualFold(effect, EffDeny)

\* C21: after any sequence of Init, SyncDefaultRoleAndUsersForProject,
\* CreatePermission and UpdatePermission calls every stored permission has an
\* effect equal, ignoring case, to Allow or Deny
C21_EffectInvariant ==
    \A i \in 1..Len(store.perms) : KnownEffect(store.perms[i].Effect)

\* the default permissions stored for the project whose resources or actions
\* differ from those the template yields for the project
DiffersFromTemplate(st) ==
    { ProjectDefaults[i].Name : i \in
        { j \in 1..Len(ProjectDefaults) :
            LET perm == Stored(st.perms, TheProject.Name, ProjectDefaults[j].Name)
            IN /\ perm # <<>>
               /\ \/ ~EqualSlice(perm[1].Resources, ProjectDefaults[j].Resources)
                  \/ ~EqualSlice(perm[1].Actions, ProjectDefaults[j].Actions) } }

\* C23: SyncDefaultRoleAndUsersForProject writes again exactly the stored
\* default permissions whose resources or actions differ from the
\* instantiated template; one that equals it in both is not written again
C23_RewriteWhenDiffers ==
    [][ (call'.op = "SyncDefaultRoleAndUsersForProject" /\ call'.fault = "none")
        => call'.puts = DiffersFromTemplate(store) ]_vars

-----------------------------------------------------------------------------
(* Claims on concurrent registration (SpecLock) *)

InBody == { g \in Goroutines : call.g[g].pc \in Body }

Registered == { g \in Goroutines : call.g[g].pc = "done" }

Finished == \A g \in Goroutines : call.g[g].pc \in {"done", "panicked"}

\* the actions registered for every name that resolves to the path
UnionOfActions(path) ==
    UNION { { call.g[g].actions[i] : i \in 1..Len(call.g[g].actions) } :
            g \in { h \in Registered : Resolution[call.g[h].resource].path = path } }

\* C22: the bodies of registerResourceAction exclude one another, the mutex
\* is free whenever no goroutine is in the body (so also after a panic),
\* and once every registration has ended the registry maps each resolved
\* path to the union of the actions registered for the names of that path
C22_SafeRegistration ==
    /\ Cardinality(InBody) <= 1
    /\ \A g \in Goroutines : call.lock = g <=> g \in InBody
    /\ Finished /\ call.resourceActions # None =>
          /\ DOMAIN call.resourceActions
                = { Resolution[call.g[g].resource].path : g \in Registered }
          /\ \A path \in DOMAIN call.resourceActions :
                 { call.resourceActions[path][i] :
                     i \in 1..Len(call.resourceActions[path]) } = UnionOfActions(path)

\* every registration has ended: two names of one path with different
\* actions were registered and one registration panicked
C22_Witness ==
    /\ Finished
    /\ call.lock = 0
    /\ \E g \in Goroutines : call.g[g].pc = "panicked"
    /\ \E g, h \in Registered :
          /\ call.g[g].resource # call.g[h].resource
          /\ call.g[g].actions # call.g[h].actions
          /\ Resolution[call.g[g].resource].path = Resolution[call.g[h].resource].path

-----------------------------------------------------------------------------
(* Claims on the project of a request that names an application (Spec) *)

\* a store read of the kind failed during the request
ReadFailed(kind) == \E i \in 1..Len(reads) : reads[i].kind = kind /\ reads[i].result = "fail"

\* the request is for the application route, gives the stored application by
\* the path parameter appName and no path parameter projectName
NamesApplication ==
    /\ req.route.resource = <<"application">>
    /\ req.path.projectName = Empty
    /\ req.path.appName # Empty
    /\ RecordedProject(store.apps, req.path.appName) # Empty

\* C24: for a request that names an application by appName, whatever its
\* query parameters project and projectName, the project segment of the
\* request resource and the project whose policies are loaded are the
\* project recorded for the application
C24_ApplicationProject ==
    (Resolved /\ NamesApplication /\ ~ReadFailed("app"))
        => /\ projectName = RecordedProject(store.apps, req.path.appName)
           /\ ra.resource[1] =
                 [Type |-> <<"project">>,
                  Value |-> RecordedProject(store.apps, req.path.appName)]

-----------------------------------------------------------------------------
(* Claims on the project of a request under concurrent writes (SpecRace) *)

\* C25: within one request the project substituted into the request
\* resource is the project the policies are loaded for, whatever the other
\* requests write to the store in between (no read of the request failing)
C25_OneProjectPerRequest ==
    (Resolved /\ ~ReadFailed("app") /\ ~ReadFailed("env"))
        => ra.resource[1] = ParseResourceName(<<"project", ":">> \o projectName)[1]

-----------------------------------------------------------------------------
(* Claims on role operations run concurrently (SpecInterleave) *)

\* C26: once a DeletePermission call and a concurrent CreateRole or
\* UpdateRole call of the same scope have both returned, in whatever order
\* their store accesses were made, every permission a stored role names
\* exists in the role's scope
C26_IntegrityUnderInterleaving ==
    (call.d.pc = "done" /\ call.w.pc = "done") => RoleIntegrity

-----------------------------------------------------------------------------
(* Claims on malformed tokens (SpecTokens) *)

\* a token of a type and a value
TwoParts(token) == Len(Split(token, ":")) = 2

\* every two-part token of s stands, equal, at the same place in t
TokensFoundIn(s, t) ==
    LET st == Split(s, "/")
        tt == Split(t, "/")
    IN \A i \in 1..Len(st) : TwoParts(st[i]) => (i <= Len(tt) /\ tt[i] = st[i])

\* C27: an empty token or a token of more than two parts does not cut the
\* chain short: when Match returns true every two-part token of the
\* pattern stands in the target at the same place and every two-part token
\* of the target in the pattern (no wildcards here), and a target whose
\* first token is not empty is not parsed to the empty chain
C27_EveryTokenCompared ==
    rn.pc = "done" =>
        /\ rn.out => (TokensFoundIn(rn.pattern, rn.target)
                        /\ TokensFoundIn(rn.target, rn.pattern))
        /\ Split(rn.target, "/")[1] # Empty
              => ParseResourceName(rn.target)[1].Type # Empty

-----------------------------------------------------------------------------
(* Claims on disabled users (SpecDisabled) *)

\* C28: a request whose user was loaded from the store as disabled (after
\* a DisableUser that succeeded and before any EnableUser that succeeds)
\* never reaches the next filter, whatever the user's roles
C28_DisabledRejected ==
    (user # None /\ user.Disabled) => chain = 0

-----------------------------------------------------------------------------
(* Claims on DetailLoginUserInfo (SpecLogin) *)

\* C29: when the context carries no user identity or the user cannot be
\* loaded, DetailLoginUserInfo has returned ErrUnauthorized and has called
\* nothing but GetUser; it lists no projects and no permissions
C29_UnauthorizedWithoutUser ==
    (call.pc # "identity" /\ (~call.ctxUser.ok \/ call.got \in {"fail", "notfound"}))
        => /\ call.pc = "done"
           /\ call.ret = "ErrUnauthorized"
           /\ \A i \in 1..Len(call.calls) : call.calls[i] = "GetUser"

-----------------------------------------------------------------------------
(* Claims on the workflow-record sync worker (SpecWorker) *)

\* every tick delivered on t.C has started one sync or waits in t.C, and
\* the worker has returned only with the context cancelled
WorkerInvariant ==
    /\ call.counted =>
          /\ call.started + call.buffered = call.fired - call.dropped
          /\ Len(call.log) = call.started - (IF call.pc = "sync" THEN 1 ELSE 0)
    /\ call.pc = "returned" => call.cancelled

\* a sync that ends, with an error or not, leaves the worker in its loop,
\* and a worker that has returned starts no sync
WorkerStep ==
    /\ call.pc = "sync" => call'.pc \in {"sync", "select"}
    /\ call.pc = "returned" => (call'.pc = "returned" /\ call'.started = call.started)
    /\ (call.pc = "select" /\ call'.pc = "sync" /\ call.counted)
          => call'.started = call.started + 1

\* C30: the worker starts one sync per tick it receives, an error of a sync
\* does not end the loop, the worker returns only on cancellation and then
\* starts no sync, and once the context is cancelled it returns at last
C30_StopsOnlyOnCancellation ==
    /\ []WorkerInvariant
    /\ [][WorkerStep]_vars
    /\ (call.cancelled ~> call.pc = "returned")

\* the worker has returned after a sync that failed and a later sync
C30_Witness ==
    /\ call.pc = "returned"
    /\ call.cancelled
    /\ Len(call.log) >= 2
    /\ call.log[1] = "sync error"

====
